---------------------------- MODULE Spec2Model ----------------------------
(***************************************************************************)
(* A model of the codec layer of the video steganography program:         *)
(*   - LSBSteganography   (src/steganography/lsb.py)                      *)
(*   - DCTSteganography   (src/steganography/dct.py)                      *)
(*   - VideoInVideoSteganography (src/steganography/video_in_video.py)    *)
(*                                                                         *)
(* Texts are sequences of Unicode code points, byte strings are sequences *)
(* of 0..255, bit sequences are sequences of 0/1.  A call that can raise  *)
(* returns a record [ok, val, err]: Ok(v) or Err(kind).                   *)
(***************************************************************************)
EXTENDS Integers, Sequences, FiniteSets, TLC

(***************************************************************************)
(* Bounds of the model.                                                    *)
(***************************************************************************)
\* longest text (in code points) given to the LSB framer
MaxTextLen == 3
\* most bits appended after a frame before it is decoded
MaxExtra == 2

(***************************************************************************)
(* State.  Each component has its own variables; a specification runs one  *)
(* component and leaves the others idle.                                   *)
(***************************************************************************)
\* the bit framing
VARIABLES f_pc, f_text, f_big, f_bit_array, f_header, f_body_len,
          f_dct_binary, f_how, f_input, f_decoded

f_vars == <<f_pc, f_text, f_big, f_bit_array, f_header, f_body_len,
            f_dct_binary, f_how, f_input, f_decoded>>

\* LSBSteganography.hide_data and extract_data
VARIABLES l_pc, l_calls, l_dir, l_temp_left, l_cover, l_text, l_hide_result,
          l_out, l_extracted, l_finished

l_vars == <<l_pc, l_calls, l_dir, l_temp_left, l_cover, l_text,
            l_hide_result, l_out, l_extracted, l_finished>>

\* DCTSteganography
VARIABLES d_pc, d_quantization, d_cover, d_text, d_hide, d_extracted,
          d_block, d_bit, d_embedded, d_got

d_vars == <<d_pc, d_quantization, d_cover, d_text, d_hide, d_extracted,
            d_block, d_bit, d_embedded, d_got>>

\* VideoInVideoSteganography: one channel value and one audio sample
VARIABLES v_pc, v_cover, v_secret, v_f0, v_f1, v_decrypted, v_enc, v_dec

v_vars == <<v_pc, v_cover, v_secret, v_f0, v_f1, v_decrypted, v_enc, v_dec>>

\* VideoHandler.calculate_capacity and a hide_data at that capacity
VARIABLES q_pc, q_cover, q_method, q_capacity, q_len, q_hide

q_vars == <<q_pc, q_cover, q_method, q_capacity, q_len, q_hide>>

\* VideoInVideoSteganography: the videos, the working directories, the
\* files written
VARIABLES w_pc, w_calls, w_fs, w_before, w_cover, w_secret, w_stego,
          w_stego_before, w_extracted, w_ret

w_vars == <<w_pc, w_calls, w_fs, w_before, w_cover, w_secret, w_stego,
            w_stego_before, w_extracted, w_ret>>

\* DCTSteganography.extract_data, block by block
VARIABLES x_pc, x_video, x_carried, x_fi, x_k, x_binary_data, x_ret

x_vars == <<x_pc, x_video, x_carried, x_fi, x_k, x_binary_data, x_ret>>

\* VideoInVideoSteganography.hide_video: the shape of one secret frame
VARIABLES r_pc, r_src, r_sec, r_resized, r_prepared

r_vars == <<r_pc, r_src, r_sec, r_resized, r_prepared>>

\* VideoInVideoSteganography: the frames of the cover, the secret, the stego
\* and the extracted video
VARIABLES s_pc, s_cover, s_secret, s_hide_ret, s_stego, s_ret, s_out

s_vars == <<s_pc, s_cover, s_secret, s_hide_ret, s_stego, s_ret, s_out>>

\* EncodeTab and its EncodeThreads
VARIABLES g_tab, g_threads, g_starts, g_hide_ok, g_emitted, g_shown

g_vars == <<g_tab, g_threads, g_starts, g_hide_ok, g_emitted, g_shown>>

VARIABLES
    \* where hide_video and extract_video stand
    c_hide, c_extract,
    \* enc/ and out/ of the current directory, shared by the two calls
    c_fs,
    \* whose samples enc/enc.wav and enc/dec.wav hold
    c_wavs,
    \* frames of the secret video, frames of the stego video read
    c_secret, c_stego_in,
    \* fn of hide_video
    c_fn,
    \* whether the VideoWriter opened, frames it wrote
    c_writer, c_written,
    \* the files at the two output paths
    c_stego, c_out,
    \* what the two calls returned
    c_hide_ret, c_extract_ret

c_vars == <<c_hide, c_extract, c_fs, c_wavs, c_secret, c_stego_in, c_fn, c_writer, c_written, c_stego, c_out, c_hide_ret, c_extract_ret>>

vars == <<f_vars, l_vars, d_vars, v_vars, q_vars, w_vars, x_vars, r_vars, s_vars, g_vars, c_vars>>

(***************************************************************************)
(* Results of calls that may raise.                                        *)
(***************************************************************************)
Ok(v) == [ok |-> TRUE, val |-> v, err |-> "none"]

Err(kind) == [ok |-> FALSE, val |-> <<>>, err |-> kind]

(***************************************************************************)
(* Bits and bytes.                                                         *)
(***************************************************************************)
\* format(byte, '08b') / bitarray.frombytes: the 8 bits of a byte, most
\* significant first
ByteBits(b) == [i \in 1..8 |-> (b \div (2^(8 - i))) % 2]

RECURSIVE BytesToBits(_)
BytesToBits(bs) ==
    IF bs = <<>> THEN <<>> ELSE ByteBits(Head(bs)) \o BytesToBits(Tail(bs))

\* int(digits, 2) of a non-empty digit sequence
RECURSIVE BitsToNat(_)
BitsToNat(bits) ==
    IF bits = <<>> THEN 0
    ELSE 2 * BitsToNat(SubSeq(bits, 1, Len(bits) - 1)) + bits[Len(bits)]

\* bitarray.tobytes(): the bits in groups of 8, the last group padded with
\* zero bits on the right
RECURSIVE BitsToBytes(_)
BitsToBytes(bits) ==
    IF bits = <<>> THEN <<>>
    ELSE IF Len(bits) < 8
         THEN <<BitsToNat(bits \o [i \in 1..(8 - Len(bits)) |-> 0])>>
         ELSE <<BitsToNat(SubSeq(bits, 1, 8))>>
              \o BitsToBytes(SubSeq(bits, 9, Len(bits)))

\* bin(n)[2:]: the binary digits of n without leading zeros ("0" for 0)
RECURSIVE BinDigits(_)
BinDigits(n) ==
    IF n < 2 THEN <<n>> ELSE BinDigits(n \div 2) \o <<n % 2>>

\* str.zfill(width): zeros on the left up to width, nothing cut off
ZFill(digits, width) ==
    IF Len(digits) >= width THEN digits
    ELSE [i \in 1..(width - Len(digits)) |-> 0] \o digits

(***************************************************************************)
(* UTF-8 (str.encode('utf-8'), bytes.decode('utf-8')).                     *)
(***************************************************************************)
Utf8EncodeChar(cp) ==
    IF cp < 128 THEN <<cp>>
    ELSE IF cp < 2048 THEN <<192 + (cp \div 64), 128 + (cp % 64)>>
    ELSE IF cp < 65536
         THEN <<224 + (cp \div 4096), 128 + ((cp \div 64) % 64),
                128 + (cp % 64)>>
         ELSE <<240 + (cp \div 262144), 128 + ((cp \div 4096) % 64),
                128 + ((cp \div 64) % 64), 128 + (cp % 64)>>

RECURSIVE Utf8Encode(_)
Utf8Encode(text) ==
    IF text = <<>> THEN <<>>
    ELSE Utf8EncodeChar(Head(text)) \o Utf8Encode(Tail(text))

IsCont(b) == b >= 128 /\ b <= 191

\* length of the sequence a lead byte announces, 0 for a byte that cannot lead
Utf8Need(b) ==
    IF b < 128 THEN 1
    ELSE IF b >= 194 /\ b <= 223 THEN 2
    ELSE IF b >= 224 /\ b <= 239 THEN 3
    ELSE IF b >= 240 /\ b <= 244 THEN 4
    ELSE 0

Utf8SecondOk(lead, b) ==
    CASE lead = 224 -> b >= 160 /\ b <= 191
      [] lead = 237 -> b >= 128 /\ b <= 159
      [] lead = 240 -> b >= 144 /\ b <= 191
      [] lead = 244 -> b >= 128 /\ b <= 143
      [] OTHER -> IsCont(b)

\* number of bytes at position i that form a well-formed prefix of a sequence
Utf8Good(bs, i) ==
    LET need == Utf8Need(bs[i])
        ok(k) == /\ i + k - 1 <= Len(bs)
                 /\ IF k = 2 THEN Utf8SecondOk(bs[i], bs[i + 1])
                    ELSE IsCont(bs[i + k - 1])
    IN  IF need = 0 THEN 0
        ELSE IF need = 1 THEN 1
        ELSE IF ~ok(2) THEN 1
        ELSE IF need = 2 THEN 2
        ELSE IF ~ok(3) THEN 2
        ELSE IF need = 3 THEN 3
        ELSE IF ~ok(4) THEN 3
        ELSE 4

Utf8CodePoint(bs, i, need) ==
    CASE need = 1 -> bs[i]
      [] need = 2 -> (bs[i] - 192) * 64 + (bs[i + 1] - 128)
      [] need = 3 -> (bs[i] - 224) * 4096 + (bs[i + 1] - 128) * 64
                     + (bs[i + 2] - 128)
      [] OTHER -> (bs[i] - 240) * 262144 + (bs[i + 1] - 128) * 4096
                  + (bs[i + 2] - 128) * 64 + (bs[i + 3] - 128)

\* bytes.decode('utf-8', errors=...) from position i: strict raises on the
\* first malformed sequence, 'ignore' drops it and goes on
RECURSIVE Utf8DecodeFrom(_, _, _)
Utf8DecodeFrom(bs, i, ignore) ==
    IF i > Len(bs) THEN Ok(<<>>)
    ELSE LET need == Utf8Need(bs[i])
             good == Utf8Good(bs, i)
         IN  IF need > 0 /\ good = need
             THEN LET rest == Utf8DecodeFrom(bs, i + need, ignore)
                  IN  IF rest.ok
                      THEN Ok(<<Utf8CodePoint(bs, i, need)>> \o rest.val)
                      ELSE rest
             ELSE IF ignore
                  THEN Utf8DecodeFrom(bs, i + (IF good = 0 THEN 1 ELSE good),
                                      ignore)
                  ELSE Err("UnicodeDecodeError")

Utf8Decode(bs) == Utf8DecodeFrom(bs, 1, FALSE)

Utf8DecodeIgnore(bs) == Utf8DecodeFrom(bs, 1, TRUE).val

(***************************************************************************)
(* Base64 (base64.b64encode, base64.b64decode without validation).         *)
(***************************************************************************)
\* the character (its ASCII code) of a 6-bit value
B64Char(v) ==
    IF v < 26 THEN 65 + v
    ELSE IF v < 52 THEN 97 + (v - 26)
    ELSE IF v < 62 THEN 48 + (v - 52)
    ELSE IF v = 62 THEN 43
    ELSE 47

\* the 6-bit value of a character, 64 for a character outside the alphabet
B64Val(c) ==
    IF c >= 65 /\ c <= 90 THEN c - 65
    ELSE IF c >= 97 /\ c <= 122 THEN c - 97 + 26
    ELSE IF c >= 48 /\ c <= 57 THEN c - 48 + 52
    ELSE IF c = 43 THEN 62
    ELSE IF c = 47 THEN 63
    ELSE 64

B64Pad == 61

RECURSIVE b64encode(_)
b64encode(bs) ==
    IF bs = <<>> THEN <<>>
    ELSE IF Len(bs) = 1
         THEN <<B64Char(bs[1] \div 4), B64Char((bs[1] % 4) * 16),
                B64Pad, B64Pad>>
    ELSE IF Len(bs) = 2
         THEN <<B64Char(bs[1] \div 4),
                B64Char((bs[1] % 4) * 16 + (bs[2] \div 16)),
                B64Char((bs[2] % 16) * 4), B64Pad>>
    ELSE <<B64Char(bs[1] \div 4),
           B64Char((bs[1] % 4) * 16 + (bs[2] \div 16)),
           B64Char((bs[2] % 16) * 4 + (bs[3] \div 64)),
           B64Char(bs[3] % 64)>>
         \o b64encode(SubSeq(bs, 4, Len(bs)))

\* binascii.a2b_base64, not strict: characters outside the alphabet are
\* skipped, a complete pad sequence ends the parse, an unfinished quad is an
\* error.  quad is the position in the current quad, left the bits carried
\* over, pads the pad characters seen since the last data character.
RECURSIVE a2b_base64(_, _, _, _, _)
a2b_base64(cs, i, quad, left, pads) ==
    IF i > Len(cs)
    THEN IF quad # 0 THEN Err("binascii.Error") ELSE Ok(<<>>)
    ELSE IF cs[i] = B64Pad
         THEN IF quad >= 2 /\ quad + pads + 1 >= 4 THEN Ok(<<>>)
              ELSE a2b_base64(cs, i + 1, quad, left,
                              IF quad >= 2 THEN pads + 1 ELSE pads)
    ELSE IF B64Val(cs[i]) >= 64
         THEN a2b_base64(cs, i + 1, quad, left, pads)
    ELSE LET v == B64Val(cs[i])
             out == CASE quad = 0 -> <<>>
                      [] quad = 1 -> <<(left * 4 + (v \div 16)) % 256>>
                      [] quad = 2 -> <<(left * 16 + (v \div 4)) % 256>>
                      [] OTHER -> <<(left * 64 + v) % 256>>
             nleft == CASE quad = 0 -> v
                        [] quad = 1 -> v % 16
                        [] quad = 2 -> v % 4
                        [] OTHER -> 0
             rest == a2b_base64(cs, i + 1, (quad + 1) % 4, nleft, 0)
         IN  IF rest.ok THEN Ok(out \o rest.val) ELSE rest

\* base64.b64decode(s) of a str: s.encode('ascii') raises on a character
\* above 127, then a2b_base64
b64decode(cs) ==
    IF \E i \in 1..Len(cs) : cs[i] > 127 THEN Err("ValueError")
    ELSE a2b_base64(cs, 1, 0, 0, 0)


(***************************************************************************)
(* LSBSteganography: the bit framing (src/steganography/lsb.py).           *)
(***************************************************************************)
Min(a, b) == IF a <= b THEN a ELSE b

\* a Python slice s[a:b] with 0 <= a <= b: cut to what the sequence holds
Slice(s, a, b) ==
    IF a >= Len(s) THEN <<>> ELSE SubSeq(s, a + 1, Min(b, Len(s)))

\* width the length header is zero-filled to
HeaderBits == 16

\* bin(bit_array_length)[2:].zfill(16)
LSB_length_bits(bit_array_length) ==
    ZFill(BinDigits(bit_array_length), HeaderBits)

\* the message bits without the base64 step
LSB_message_bits_raw(text) == BytesToBits(Utf8Encode(text))

\* the bits of the base64 text of the UTF-8 bytes of the message
LSB_message_bits(text) == BytesToBits(b64encode(Utf8Encode(text)))

LSB_text_to_binary(text) ==
    LET bit_array == LSB_message_bits(text)
    IN  LSB_length_bits(Len(bit_array)) \o bit_array

\* number of characters b64encode produces for n bytes
B64Len(n) == 4 * ((n + 2) \div 3)

\* binary_to_text taking every bit after the header as the message
LSB_binary_to_text_nolen(binary_data) ==
    LET head == Slice(binary_data, 0, HeaderBits)
    IN  IF head = <<>> THEN Err("ValueError")
        ELSE LET message_bits == Slice(binary_data, HeaderBits,
                                       Len(binary_data))
                 encoded_message == Utf8Decode(BitsToBytes(message_bits))
             IN  IF ~encoded_message.ok THEN encoded_message
                 ELSE LET decoded_bytes == b64decode(encoded_message.val)
                      IN  IF ~decoded_bytes.ok THEN decoded_bytes
                          ELSE Utf8Decode(decoded_bytes.val)

LSB_binary_to_text(binary_data) ==
    LET head == Slice(binary_data, 0, HeaderBits)
    IN  IF head = <<>> THEN Err("ValueError")
        ELSE LET length == BitsToNat(head)
                 message_bits == Slice(binary_data, HeaderBits,
                                       HeaderBits + length)
                 encoded_message == Utf8Decode(BitsToBytes(message_bits))
             IN  IF ~encoded_message.ok THEN encoded_message
                 ELSE LET decoded_bytes == b64decode(encoded_message.val)
                      IN  IF ~decoded_bytes.ok THEN decoded_bytes
                          ELSE Utf8Decode(decoded_bytes.val)

(***************************************************************************)
(* DCTSteganography: text and binary strings (src/steganography/dct.py).   *)
(* A binary string is a sequence of the characters '0' (48) and '1' (49).  *)
(***************************************************************************)
\* the character of a binary digit, str(bit)
DigitChar(bit) == 48 + bit

\* ''.join(format(byte, '08b') for byte in text.encode('utf-8'))
DCT_text_to_binary(text) ==
    LET bits == BytesToBits(Utf8Encode(text))
    IN  [i \in 1..Len(bits) |-> DigitChar(bits[i])]

(***************************************************************************)
(* The framer as a state machine: a text is framed by text_to_binary, the  *)
(* frame reaches binary_to_text whole, with bits after it, or cut short.   *)
(* A large text is kept as its UTF-8 byte count alone: its frame is the    *)
(* header text_to_binary computes and the length of the body.              *)
(***************************************************************************)
\* 'A' (one byte in UTF-8) and e-acute (two bytes)
TextAlphabet == {65, 233}

RECURSIVE SeqsUpTo(_, _)
SeqsUpTo(S, n) ==
    IF n = 0 THEN {<<>>}
    ELSE LET shorter == SeqsUpTo(S, n - 1)
         IN  shorter \cup {Append(s, x) : s \in shorter, x \in S}

\* "Hello", the text of test_text_to_binary
Hello == <<72, 101, 108, 108, 111>>

Texts == SeqsUpTo(TextAlphabet, MaxTextLen) \cup {Hello}

ExtraBits == SeqsUpTo({0, 1}, MaxExtra)

\* UTF-8 byte counts of large texts, around the first whose body needs more
\* than 16 bits to count
LargeByteCounts == {6141, 6142, 6144, 12288}

NoResult == Err("not called")

F_Init ==
    /\ f_pc = "start"
    /\ f_text \in Texts
    /\ f_big = 0
    /\ f_bit_array = <<>>
    /\ f_header = <<>>
    /\ f_body_len = 0
    /\ f_dct_binary = <<>>
    /\ f_how = "none"
    /\ f_input = <<>>
    /\ f_decoded = NoResult

\* LSBSteganography.text_to_binary(f_text)
F_TextToBinary ==
    /\ f_pc = "start"
    /\ f_bit_array' = LSB_text_to_binary(f_text)
    /\ f_body_len' = Len(LSB_message_bits(f_text))
    /\ f_header' = LSB_length_bits(Len(LSB_message_bits(f_text)))
    /\ f_pc' = "framed"
    /\ UNCHANGED <<f_text, f_big, f_dct_binary, f_how, f_input, f_decoded>>
    /\ UNCHANGED <<l_vars, d_vars, v_vars, q_vars, w_vars, x_vars, r_vars, s_vars, g_vars, c_vars>>

\* LSBSteganography.text_to_binary of a text of nbytes UTF-8 bytes, the body
\* not written out
F_TextToBinaryLarge(nbytes) ==
    /\ f_pc = "start"
    /\ f_text = <<>>
    /\ f_big' = nbytes
    /\ f_body_len' = 8 * B64Len(nbytes)
    /\ f_header' = LSB_length_bits(8 * B64Len(nbytes))
    /\ f_pc' = "framed_large"
    /\ UNCHANGED <<f_text, f_bit_array, f_dct_binary, f_how, f_input,
                   f_decoded>>
    /\ UNCHANGED <<l_vars, d_vars, v_vars, q_vars, w_vars, x_vars, r_vars, s_vars, g_vars, c_vars>>

\* DCTSteganography.text_to_binary(f_text)
F_DCTTextToBinary ==
    /\ f_pc = "start"
    /\ f_dct_binary' = DCT_text_to_binary(f_text)
    /\ f_pc' = "dct_framed"
    /\ UNCHANGED <<f_text, f_big, f_bit_array, f_header, f_body_len, f_how,
                   f_input, f_decoded>>
    /\ UNCHANGED <<l_vars, d_vars, v_vars, q_vars, w_vars, x_vars, r_vars, s_vars, g_vars, c_vars>>

\* the frame reaches the decoder with bits after it
F_Append(extra) ==
    /\ f_pc = "framed"
    /\ f_input' = f_bit_array \o extra
    /\ f_how' = "append"
    /\ f_pc' = "input"
    /\ UNCHANGED <<f_text, f_big, f_bit_array, f_header, f_body_len,
                   f_dct_binary, f_decoded>>
    /\ UNCHANGED <<l_vars, d_vars, v_vars, q_vars, w_vars, x_vars, r_vars, s_vars, g_vars, c_vars>>

\* the frame reaches the decoder cut to its first k bits
F_Truncate(k) ==
    /\ f_pc = "framed"
    /\ k < Len(f_bit_array)
    /\ f_input' = SubSeq(f_bit_array, 1, k)
    /\ f_how' = "truncate"
    /\ f_pc' = "input"
    /\ UNCHANGED <<f_text, f_big, f_bit_array, f_header, f_body_len,
                   f_dct_binary, f_decoded>>
    /\ UNCHANGED <<l_vars, d_vars, v_vars, q_vars, w_vars, x_vars, r_vars, s_vars, g_vars, c_vars>>

\* LSBSteganography.binary_to_text(f_input)
F_BinaryToText ==
    /\ f_pc = "input"
    /\ f_decoded' = LSB_binary_to_text(f_input)
    /\ f_pc' = "decoded"
    /\ UNCHANGED <<f_text, f_big, f_bit_array, f_header, f_body_len,
                   f_dct_binary, f_how, f_input>>
    /\ UNCHANGED <<l_vars, d_vars, v_vars, q_vars, w_vars, x_vars, r_vars, s_vars, g_vars, c_vars>>

\* the frame cut anywhere before its end
F_TruncateAny == \E k \in 0..Len(f_bit_array) : F_Truncate(k)

F_Next ==
    \/ F_TextToBinary
    \/ \E nbytes \in LargeByteCounts : F_TextToBinaryLarge(nbytes)
    \/ F_DCTTextToBinary
    \/ \E extra \in ExtraBits : F_Append(extra)
    \/ F_TruncateAny
    \/ F_BinaryToText

(***************************************************************************)
(* LSBSteganography.hide_data and extract_data (src/steganography/lsb.py). *)
(* A video is [opened, frames]; a frame is its channel values in raster    *)
(* order (row, column, channel), 3 x width x height of them.  The          *)
(* directory assets/frames outlives the calls: l_dir[k + 1] is the frame   *)
(* in frame_<k>.png.  The video written by ffmpeg holds the frames it was  *)
(* given, unchanged.                                                       *)
(***************************************************************************)
\* geometry of the cover frames
LSBWidth == 4
LSBHeight == 4
\* most frames in a cover
MaxFrames == 2
\* most hide_data calls in a run
MaxCalls == 2
\* frames in the long cover
LongFrames == 11

\* values all channels of a frame take: black and white
FrameValues == {0, 255}

ConstFrame(v) == [i \in 1..(3 * LSBWidth * LSBHeight) |-> v]

Unopenable == [opened |-> FALSE, frames |-> <<>>]

\* a cover of more than ten frames, each frame of a value of its own
LongCover ==
    [opened |-> TRUE,
     frames |-> [k \in 1..LongFrames |-> ConstFrame(2 * (k - 1))]]

LSBCovers ==
    {Unopenable, LongCover}
    \cup {[opened |-> TRUE, frames |-> [k \in 1..Len(vs) |-> ConstFrame(vs[k])]] :
             vs \in SeqsUpTo(FrameValues, MaxFrames)}

NoVideo == [exists |-> FALSE, frames |-> <<>>]

\* the decimal digits of n, as characters
RECURSIVE DecDigits(_)
DecDigits(n) ==
    IF n < 10 THEN <<48 + n>> ELSE DecDigits(n \div 10) \o <<48 + (n % 10)>>

\* what follows "frame_" in the name of frame k: "<k>.png"
FrameFileName(k) == DecDigits(k) \o <<46, 112, 110, 103>>

\* a < b for Python strings
RECURSIVE StrLess(_, _)
StrLess(a, b) ==
    IF b = <<>> THEN FALSE
    ELSE IF a = <<>> THEN TRUE
    ELSE IF Head(a) # Head(b) THEN Head(a) < Head(b)
    ELSE StrLess(Tail(a), Tail(b))

\* sorted(os.listdir(frames_folder)) of a folder holding frame_0 .. frame_<n-1>:
\* the frame numbers in the order of their names
SortedFrameList(n) ==
    [p \in 1..n |->
        CHOOSE k \in 0..(n - 1) :
            Cardinality({m \in 0..(n - 1) :
                            StrLess(FrameFileName(m), FrameFileName(k))}) = p - 1]

\* reconstruct_video(frames_folder, output_video): the frames of the folder
\* in the order of their names, handed to ffmpeg; both encoders failing
\* raises, and leaves temp_png_frames behind
reconstruct_video(dir, ffmpeg_ok) ==
    LET frame_list == SortedFrameList(Len(dir))
    IN  IF Len(dir) = 0
        THEN [raised |-> FALSE, out |-> NoVideo, temp_left |-> FALSE]
        ELSE IF ~ffmpeg_ok
             THEN [raised |-> TRUE, out |-> NoVideo, temp_left |-> TRUE]
             ELSE [raised |-> FALSE,
                   out |-> [exists |-> TRUE,
                            frames |-> [p \in 1..Len(dir) |->
                                           dir[frame_list[p] + 1]]],
                   temp_left |-> FALSE]

\* the frames of the cover written over frame_0 .. in the folder
SaveFrames(dir, frames) ==
    [k \in 1..(IF Len(dir) > Len(frames) THEN Len(dir) ELSE Len(frames)) |->
        IF k <= Len(frames) THEN frames[k] ELSE dir[k]]

\* hide_data(video_path, output_path, secret_data): the tuple returned, the
\* folder and the output video afterwards.  The message is framed and
\* printed; the loop that would embed it is commented out.
LSB_hide_data(cover, secret_data, dir, ffmpeg_ok) ==
    IF ~cover.opened
    THEN [result |-> <<FALSE, "Could not open video file">>, dir |-> dir,
          written |-> FALSE, out |-> NoVideo, temp_left |-> FALSE]
    ELSE IF cover.frames = <<>>
    THEN [result |-> <<FALSE, "Could not find any frames in video">>,
          dir |-> dir, written |-> FALSE, out |-> NoVideo,
          temp_left |-> FALSE]
    ELSE LET saved == SaveFrames(dir, cover.frames)
             bit_array == LSB_text_to_binary(secret_data)
             rec == reconstruct_video(saved, ffmpeg_ok)
         IN  IF rec.raised
             THEN [result |-> <<FALSE, "Error hiding data">>, dir |-> saved,
                   written |-> FALSE, out |-> NoVideo,
                   temp_left |-> rec.temp_left]
             ELSE [result |-> <<TRUE, "Data hidden successfully">>,
                   dir |-> saved, written |-> TRUE, out |-> rec.out,
                   temp_left |-> FALSE]

\* the strings extract_data returns in place of a message
CouldNotOpen ==
    <<67, 111, 117, 108, 100, 32, 110, 111, 116, 32, 111, 112, 101, 110, 32,
      118, 105, 100, 101, 111, 32, 102, 105, 108, 101>>

CouldNotRead ==
    <<67, 111, 117, 108, 100, 32, 110, 111, 116, 32, 114, 101, 97, 100, 32,
      118, 105, 100, 101, 111, 32, 102, 105, 108, 101>>

ErrorExtracting ==
    <<69, 114, 114, 111, 114, 32, 101, 120, 116, 114, 97, 99, 116, 105, 110,
      103, 32, 100, 97, 116, 97>>

\* frame[i, j, color_channel] & 1
LowBit(v) == v % 2

\* extract_data(video_path): the string returned
LSB_extract_data(video) ==
    IF ~video.exists THEN CouldNotOpen
    ELSE IF video.frames = <<>> THEN CouldNotRead
    ELSE LET frame == video.frames[1]
             bit_array == [i \in 1..Len(frame) |-> LowBit(frame[i])]
             message == LSB_binary_to_text(bit_array)
         IN  IF message.ok THEN message.val ELSE ErrorExtracting

\* the signal finished(bool, str) not emitted yet
NotFinished == <<FALSE, <<>>>>

\* DecodeThread.run with method "LSB": the arguments of finished.emit;
\* extract_data raises nothing, so the except branch is never taken
DecodeThread_run(video) == <<TRUE, LSB_extract_data(video)>>

L_Init ==
    /\ l_pc = "idle"
    /\ l_calls = 0
    /\ l_dir = <<>>
    /\ l_temp_left = FALSE
    /\ l_cover = Unopenable
    /\ l_text = <<>>
    /\ l_hide_result = <<FALSE, "not called">>
    /\ l_out = NoVideo
    /\ l_extracted = <<>>
    /\ l_finished = NotFinished

\* hide_data(cover, out, text), out a path that holds no video yet
L_HideData(cover, text, ffmpeg_ok) ==
    /\ l_pc \in {"idle", "hidden", "extracted", "finished"}
    /\ l_calls < MaxCalls
    /\ LET r == LSB_hide_data(cover, text, l_dir, ffmpeg_ok)
       IN  /\ l_hide_result' = r.result
           /\ l_dir' = r.dir
           /\ l_out' = r.out
           /\ l_temp_left' = (l_temp_left \/ r.temp_left)
    /\ l_cover' = cover
    /\ l_text' = text
    /\ l_calls' = l_calls + 1
    /\ l_extracted' = <<>>
    /\ l_finished' = NotFinished
    /\ l_pc' = "hidden"
    /\ UNCHANGED <<f_vars, d_vars, v_vars, q_vars, w_vars, x_vars, r_vars, s_vars, g_vars, c_vars>>

\* extract_data(out)
L_ExtractData ==
    /\ l_pc = "hidden"
    /\ l_extracted' = LSB_extract_data(l_out)
    /\ l_pc' = "extracted"
    /\ UNCHANGED <<l_calls, l_dir, l_temp_left, l_cover, l_text,
                   l_hide_result, l_out, l_finished>>
    /\ UNCHANGED <<f_vars, d_vars, v_vars, q_vars, w_vars, x_vars, r_vars, s_vars, g_vars, c_vars>>

\* DecodeThread("LSB", out).run()
L_DecodeThreadRun ==
    /\ l_pc = "hidden"
    /\ l_finished' = DecodeThread_run(l_out)
    /\ l_extracted' = DecodeThread_run(l_out)[2]
    /\ l_pc' = "finished"
    /\ UNCHANGED <<l_calls, l_dir, l_temp_left, l_cover, l_text,
                   l_hide_result, l_out>>
    /\ UNCHANGED <<f_vars, d_vars, v_vars, q_vars, w_vars, x_vars, r_vars, s_vars, g_vars, c_vars>>

L_Next ==
    \/ \E cover \in LSBCovers, text \in Texts, ffmpeg_ok \in BOOLEAN :
          L_HideData(cover, text, ffmpeg_ok)
    \/ L_ExtractData
    \/ L_DecodeThreadRun

(***************************************************************************)
(* DCTSteganography (src/steganography/dct.py).                            *)
(*                                                                         *)
(* embed_bit and extract_bit read and write one coefficient of the 8x8     *)
(* transform of a block, the one at (4,5); a block is modelled by that     *)
(* coefficient in each of its three channels, <<blue, green, red>>, in     *)
(* thousandths.  The transform is linear and idct_block inverts dct_block, *)
(* so the coefficient of the grayscale block is the weighted sum of the    *)
(* channels' (cv2.COLOR_BGR2GRAY: 0.114 B + 0.587 G + 0.299 R), and        *)
(* writing idct_block(d) to a channel sets that channel's coefficient to   *)
(* d's.  Rounding to uint8 is left out.                                    *)
(***************************************************************************)
\* a coefficient of u whole units, in thousandths
Coeff(u) == u * 1000

\* the coefficient at (4,5) of dct_block(cvtColor(frame, COLOR_BGR2GRAY)),
\* in millionths
GrayCoeff(blk) == 114 * blk[1] + 587 * blk[2] + 299 * blk[3]

\* embed_bit(dct_block, bit): the coefficient at (4,5) afterwards
DCT_embed_bit(c, bit, quantization) ==
    IF bit = 1
    THEN IF c <= 0 THEN -quantization ELSE c
    ELSE IF c > 0 THEN quantization ELSE c

\* extract_bit(dct_block)
DCT_extract_bit(c) == IF c <= 0 THEN 1 ELSE 0

\* int(binary_value, 2) for each group of 8 characters, then
\* decode('utf-8', errors='ignore')
RECURSIVE BinaryStringBytes(_)
BinaryStringBytes(binary) ==
    IF binary = <<>> THEN <<>>
    ELSE LET n == Min(8, Len(binary))
         IN  <<BitsToNat([i \in 1..n |-> binary[i] - 48])>>
             \o BinaryStringBytes(Slice(binary, n, Len(binary)))

DCT_binary_to_text(binary) == Utf8DecodeIgnore(BinaryStringBytes(binary))

\* str(n) of an integer
PyStr(n) == IF n < 0 THEN <<45>> \o DecDigits(-n) ELSE DecDigits(n)

IsDigit(c) == c >= 48 /\ c <= 57

IsSpace(c) == c \in {9, 10, 11, 12, 13, 28, 29, 30, 31, 32}

RECURSIVE Strip(_)
Strip(s) ==
    IF s = <<>> THEN s
    ELSE IF IsSpace(Head(s)) THEN Strip(Tail(s))
    ELSE IF IsSpace(s[Len(s)]) THEN Strip(SubSeq(s, 1, Len(s) - 1))
    ELSE s

\* digits, single underscores between them allowed
ValidDigits(s) ==
    /\ s # <<>>
    /\ IsDigit(s[1]) /\ IsDigit(s[Len(s)])
    /\ \A i \in 1..Len(s) : IsDigit(s[i]) \/ s[i] = 95
    /\ \A i \in 1..(Len(s) - 1) : ~(s[i] = 95 /\ s[i + 1] = 95)

RECURSIVE DigitsValue(_)
DigitsValue(s) ==
    IF s = <<>> THEN 0
    ELSE IF s[Len(s)] = 95 THEN DigitsValue(SubSeq(s, 1, Len(s) - 1))
    ELSE 10 * DigitsValue(SubSeq(s, 1, Len(s) - 1)) + (s[Len(s)] - 48)

\* int(s) of a string of ASCII characters: surrounding whitespace, a sign,
\* decimal digits
PyInt(s) ==
    LET t == Strip(s)
        signed == t # <<>> /\ t[1] \in {43, 45}
        body == IF signed THEN Tail(t) ELSE t
    IN  IF ~ValidDigits(body) THEN Err("ValueError")
        ELSE Ok(IF signed /\ t[1] = 45 THEN -DigitsValue(body)
                ELSE DigitsValue(body))

\* s[:n] of Python, n of either sign
PySliceTo(s, n) ==
    IF n >= 0 THEN Slice(s, 0, n)
    ELSE IF Len(s) + n <= 0 THEN <<>> ELSE Slice(s, 0, Len(s) + n)

Colon == 58

\* position of the first ch in s, 0 when there is none
IndexOf(s, ch) ==
    IF \E i \in 1..Len(s) : s[i] = ch
    THEN CHOOSE i \in 1..Len(s) : s[i] = ch /\ \A j \in 1..(i - 1) : s[j] # ch
    ELSE 0

\* s.split(":", 1) of a string that holds a colon
SplitAtColon(s) ==
    LET i == IndexOf(s, Colon)
    IN  <<SubSeq(s, 1, i - 1), SubSeq(s, i + 1, Len(s))>>

\* len(range(0, d - 8, 8)): the block rows (columns) the loops visit
RangeLen(d) == IF d - 8 <= 0 THEN 0 ELSE (d - 8 + 7) \div 8

\* a frame holds (height // 8) x (width // 8) whole blocks in raster order;
\* the grid positions the loops visit, rows outer, columns inner
VisitedBlocks(width, height) ==
    [k \in 1..(RangeLen(height) * RangeLen(width)) |->
        ((k - 1) \div RangeLen(width)) * (width \div 8)
        + ((k - 1) % RangeLen(width)) + 1]

\* the block loops of hide_data on one frame, from visited block k on
RECURSIVE HideBlocks(_, _, _, _, _, _)
HideBlocks(frame, visit, k, data_index, binary_data, quantization) ==
    IF k > Len(visit)
    THEN [frame |-> frame, data_index |-> data_index, complete |-> FALSE]
    ELSE IF data_index >= Len(binary_data)
    THEN [frame |-> frame, data_index |-> data_index, complete |-> TRUE]
    ELSE LET blk == frame[visit[k]]
             bit == binary_data[data_index + 1] - 48
             \* in thousandths: exact, the cover's channels being whole units
             dct_block == DCT_embed_bit(GrayCoeff(blk) \div 1000, bit,
                                        Coeff(quantization))
             modified == [frame EXCEPT ![visit[k]] =
                              <<dct_block, blk[2], blk[3]>>]
         IN  HideBlocks(modified, visit, k + 1, data_index + 1, binary_data,
                        quantization)

\* the frame loop of hide_data, from frame fi on
RECURSIVE HideFrames(_, _, _, _, _, _, _)
HideFrames(frames, fi, visit, data_index, complete, binary_data, quantization) ==
    IF fi > Len(frames)
    THEN [frames |-> frames, data_index |-> data_index,
          complete |-> complete]
    ELSE IF complete
    THEN HideFrames(frames, fi + 1, visit, data_index, complete,
                    binary_data, quantization)
    ELSE LET r == HideBlocks(frames[fi], visit, 1, data_index, binary_data,
                             quantization)
         IN  HideFrames([frames EXCEPT ![fi] = r.frame], fi + 1, visit,
                        r.data_index, r.complete, binary_data, quantization)

NoDCTVideo == [exists |-> FALSE, width |-> 0, height |-> 0, frames |-> <<>>]

\* the file VideoWriter(output_path, fourcc, fps, (width, height)) makes,
\* holding the frames written to it
DCTVideo(cover, frames) ==
    [exists |-> TRUE, width |-> cover.width, height |-> cover.height,
     frames |-> frames]

\* hide_data(video_path, output_path, secret_data): what it returns, the
\* output file, and where the loops stood at the end
DCT_hide_data(cover, secret_data, quantization) ==
    IF ~cover.opened
    THEN [ret |-> FALSE, out |-> NoDCTVideo, data_index |-> 0,
          data_len |-> 0, complete |-> FALSE]
    ELSE LET binary_data ==
                 DCT_text_to_binary(PyStr(Len(secret_data)) \o <<Colon>>
                                    \o secret_data)
             data_len == Len(binary_data)
             max_bits == (cover.width \div 8) * (cover.height \div 8)
                         * Len(cover.frames)
         IN  IF data_len > max_bits
             THEN [ret |-> FALSE, out |-> DCTVideo(cover, <<>>),
                   data_index |-> 0, data_len |-> data_len,
                   complete |-> FALSE]
             ELSE LET r == HideFrames(cover.frames, 1,
                                      VisitedBlocks(cover.width, cover.height),
                                      0, FALSE, binary_data, quantization)
                  IN  [ret |-> TRUE, out |-> DCTVideo(cover, r.frames),
                       data_index |-> r.data_index, data_len |-> data_len,
                       complete |-> r.complete]

NoHiddenMessage ==
    <<78, 111, 32, 104, 105, 100, 100, 101, 110, 32, 109, 101, 115, 115, 97,
      103, 101, 32, 102, 111, 117, 110, 100>>

\* the test extract_data makes each time the bits read fill whole bytes:
\* Ok(message) when it returns there, an error when it reads on
DCT_try_parse(binary_data) ==
    LET current_data == DCT_binary_to_text(binary_data)
    IN  IF IndexOf(current_data, Colon) = 0 THEN Err("no delimiter")
        ELSE LET parts == SplitAtColon(current_data)
                 msg_length == PyInt(parts[1])
             IN  IF ~msg_length.ok THEN msg_length
                 ELSE LET total_length ==
                              Len(DCT_text_to_binary(
                                      parts[1] \o <<Colon>>
                                      \o PySliceTo(parts[2], msg_length.val)))
                      IN  IF Len(binary_data) >= total_length
                          THEN Ok(PySliceTo(parts[2], msg_length.val))
                          ELSE Err("incomplete")

\* the loops of extract_data from visited block k of frame fi on
RECURSIVE ExtractWalk(_, _, _, _, _)
ExtractWalk(frames, fi, visit, k, binary_data) ==
    IF fi > Len(frames) THEN NoHiddenMessage
    ELSE IF k > Len(visit) THEN ExtractWalk(frames, fi + 1, visit, 1,
                                            binary_data)
    ELSE LET bit == DCT_extract_bit(GrayCoeff(frames[fi][visit[k]]))
             grown == Append(binary_data, DigitChar(bit))
             parsed == IF Len(grown) % 8 = 0 THEN DCT_try_parse(grown)
                       ELSE Err("not a whole byte")
         IN  IF parsed.ok THEN parsed.val
             ELSE ExtractWalk(frames, fi, visit, k + 1, grown)

\* extract_data(video_path): the string returned; a file that cannot be
\* opened yields no frame
DCT_extract_data(video) ==
    IF ~video.exists THEN NoHiddenMessage
    ELSE ExtractWalk(video.frames, 1,
                     VisitedBlocks(video.width, video.height), 1, <<>>)

\* longest message (in code points) given to DCT hide_data
MaxDCTTextLen == 2
\* most frames in a DCT cover
MaxDCTFrames == 2

\* 'A' and the delimiter ':'
DCTAlphabet == {65, Colon}

DCTTexts == SeqsUpTo(DCTAlphabet, MaxDCTTextLen)

\* quantization of DCTSteganography()
DefaultQuantization == 50

\* the default quantization, and the smallest
Quantizations == {DefaultQuantization, 1}

\* a block whose three channels have the same coefficient, u units
GrayBlock(u) == <<Coeff(u), Coeff(u), Coeff(u)>>

\* the blocks of a cover repeat one of these patterns: flat gray (the 128
\* gray of the tests), gray with a negative or a positive coefficient, the
\* two alternating, and one coloured block
DCTPatterns ==
    {<<GrayBlock(0)>>, <<GrayBlock(-60)>>, <<GrayBlock(60)>>,
     <<GrayBlock(60), GrayBlock(-60)>>,
     <<<<Coeff(60), Coeff(-60), Coeff(0)>>>>}

\* <<width, height>> of the covers
DCTGeometries == {<<24, 24>>, <<48, 48>>, <<50, 44>>}

DCTUnopenable ==
    [opened |-> FALSE, width |-> 0, height |-> 0, frames |-> <<>>]

DCTCovers ==
    {DCTUnopenable}
    \cup {[opened |-> TRUE, width |-> g[1], height |-> g[2],
           frames |-> [f \in 1..n |->
                          [i \in 1..((g[1] \div 8) * (g[2] \div 8)) |->
                              pat[((i - 1) % Len(pat)) + 1]]]] :
             g \in DCTGeometries, n \in 1..MaxDCTFrames, pat \in DCTPatterns}

\* coefficients (in units) of the single blocks given to embed_bit
BlockCoeffs == {-60, -1, 0, 1, 60}

NoHide ==
    [ret |-> FALSE, out |-> NoDCTVideo, data_index |-> 0, data_len |-> 0,
     complete |-> FALSE]

D_Init ==
    /\ d_pc = "idle"
    /\ d_quantization \in Quantizations
    /\ d_cover = DCTUnopenable
    /\ d_text = <<>>
    /\ d_hide = NoHide
    /\ d_extracted = <<>>
    /\ d_block = 0
    /\ d_bit = 0
    /\ d_embedded = 0
    /\ d_got = 0

\* embed_bit(dct_block, bit) on a block whose coefficient at (4,5) is c
D_EmbedBit(c, bit) ==
    /\ d_pc = "idle"
    /\ d_block' = Coeff(c)
    /\ d_bit' = bit
    /\ d_embedded' = DCT_embed_bit(Coeff(c), bit, Coeff(d_quantization))
    /\ d_pc' = "bit_embedded"
    /\ UNCHANGED <<d_quantization, d_cover, d_text, d_hide, d_extracted,
                   d_got>>
    /\ UNCHANGED <<f_vars, l_vars, v_vars, q_vars, w_vars, x_vars, r_vars, s_vars, g_vars, c_vars>>

\* extract_bit of the block embed_bit returned
D_ExtractBit ==
    /\ d_pc = "bit_embedded"
    /\ d_got' = DCT_extract_bit(d_embedded)
    /\ d_pc' = "bit_extracted"
    /\ UNCHANGED <<d_quantization, d_cover, d_text, d_hide, d_extracted,
                   d_block, d_bit, d_embedded>>
    /\ UNCHANGED <<f_vars, l_vars, v_vars, q_vars, w_vars, x_vars, r_vars, s_vars, g_vars, c_vars>>

\* hide_data(cover, out, text)
D_HideData(cover, text) ==
    /\ d_pc = "idle"
    /\ d_cover' = cover
    /\ d_text' = text
    /\ d_hide' = DCT_hide_data(cover, text, d_quantization)
    /\ d_pc' = "hidden"
    /\ UNCHANGED <<d_quantization, d_extracted, d_block, d_bit, d_embedded,
                   d_got>>
    /\ UNCHANGED <<f_vars, l_vars, v_vars, q_vars, w_vars, x_vars, r_vars, s_vars, g_vars, c_vars>>

\* extract_data(out)
D_ExtractData ==
    /\ d_pc = "hidden"
    /\ d_extracted' = DCT_extract_data(d_hide.out)
    /\ d_pc' = "extracted"
    /\ UNCHANGED <<d_quantization, d_cover, d_text, d_hide, d_block, d_bit,
                   d_embedded, d_got>>
    /\ UNCHANGED <<f_vars, l_vars, v_vars, q_vars, w_vars, x_vars, r_vars, s_vars, g_vars, c_vars>>

D_Next ==
    \/ \E c \in BlockCoeffs, bit \in {0, 1} : D_EmbedBit(c, bit)
    \/ D_ExtractBit
    \/ \E cover \in DCTCovers, text \in DCTTexts : D_HideData(cover, text)
    \/ D_ExtractData

(***************************************************************************)
(* VideoInVideoSteganography (src/steganography/video_in_video.py): the    *)
(* arithmetic on one uint8 channel value and on one uint8 audio sample.    *)
(***************************************************************************)
RECURSIVE BitAnd(_, _)
BitAnd(a, b) ==
    IF a = 0 \/ b = 0 THEN 0
    ELSE (a % 2) * (b % 2) + 2 * BitAnd(a \div 2, b \div 2)

RECURSIVE BitOr(_, _)
BitOr(a, b) ==
    IF a = 0 THEN b
    ELSE IF b = 0 THEN a
    ELSE (IF a % 2 = 1 \/ b % 2 = 1 THEN 1 ELSE 0)
         + 2 * BitOr(a \div 2, b \div 2)

ShiftRight(a, k) == a \div (2^k)

\* a << k of a uint8 array: the result stays uint8
ShiftLeft8(a, k) == (a * (2^k)) % 256

\* the first stego value with >> binding looser than &: sec >> (4 & 3)
VIV_encrypt_first_loose(src, sec) ==
    BitOr(BitAnd(src, 252), ShiftRight(sec, BitAnd(4, 3)))

\* (src_frame & 0b11111100) | (sec_frame >> 4 & 0b00000011)
VIV_encrypt_first(src, sec) ==
    BitOr(BitAnd(src, 252), BitAnd(ShiftRight(sec, 4), 3))

\* (src_frame & 0b11111100) | (sec_frame >> 6)
VIV_encrypt_second(src, sec) ==
    BitOr(BitAnd(src, 252), ShiftRight(sec, 6))

\* (frame & 0b00000011) << 4, for an odd frame number
VIV_decrypt_first(frame) == ShiftLeft8(BitAnd(frame, 3), 4)

\* decrypted_frame | (frame & 0b00000011) << 6, for an even frame number
VIV_decrypt_second(decrypted_frame, frame) ==
    BitOr(decrypted_frame, ShiftLeft8(BitAnd(frame, 3), 6))

\* the audio sample with the shift applied to the whole sum:
\* ((c & 0b11110000) | (s & 0b11110000)) >> 4
VIV_encode_sample_loose(c, s) ==
    ShiftRight(BitOr(BitAnd(c, 240), BitAnd(s, 240)), 4)

\* (c_frames & 0b11110000) | (s_frames & 0b11110000) >> 4
VIV_encode_sample(c, s) ==
    BitOr(BitAnd(c, 240), ShiftRight(BitAnd(s, 240), 4))

\* (e_frames & 0b00001111) << 4
VIV_decode_sample(e) == ShiftLeft8(BitAnd(e, 15), 4)

Uint8 == 0..255

V_Init ==
    /\ v_pc = "start"
    /\ v_cover \in Uint8
    /\ v_secret \in Uint8
    /\ v_f0 = 0
    /\ v_f1 = 0
    /\ v_decrypted = 0
    /\ v_enc = 0
    /\ v_dec = 0

\* hide_video on one channel of a cover frame and a secret frame: the two
\* stego frames
V_HidePixel ==
    /\ v_pc = "start"
    /\ v_f0' = VIV_encrypt_first(v_cover, v_secret)
    /\ v_f1' = VIV_encrypt_second(v_cover, v_secret)
    /\ v_pc' = "hidden"
    /\ UNCHANGED <<v_cover, v_secret, v_decrypted, v_enc, v_dec>>
    /\ UNCHANGED <<f_vars, l_vars, d_vars, q_vars, w_vars, x_vars, r_vars, s_vars, g_vars, c_vars>>

\* extract_video on the first frame of the pair
V_ExtractFirst ==
    /\ v_pc = "hidden"
    /\ v_decrypted' = VIV_decrypt_first(v_f0)
    /\ v_pc' = "half"
    /\ UNCHANGED <<v_cover, v_secret, v_f0, v_f1, v_enc, v_dec>>
    /\ UNCHANGED <<f_vars, l_vars, d_vars, q_vars, w_vars, x_vars, r_vars, s_vars, g_vars, c_vars>>

\* extract_video on the second frame of the pair
V_ExtractSecond ==
    /\ v_pc = "half"
    /\ v_decrypted' = VIV_decrypt_second(v_decrypted, v_f1)
    /\ v_pc' = "extracted"
    /\ UNCHANGED <<v_cover, v_secret, v_f0, v_f1, v_enc, v_dec>>
    /\ UNCHANGED <<f_vars, l_vars, d_vars, q_vars, w_vars, x_vars, r_vars, s_vars, g_vars, c_vars>>

\* encode_audio on one cover sample and one secret sample
V_EncodeAudio ==
    /\ v_pc = "start"
    /\ v_enc' = VIV_encode_sample(v_cover, v_secret)
    /\ v_pc' = "audio_encoded"
    /\ UNCHANGED <<v_cover, v_secret, v_f0, v_f1, v_decrypted, v_dec>>
    /\ UNCHANGED <<f_vars, l_vars, d_vars, q_vars, w_vars, x_vars, r_vars, s_vars, g_vars, c_vars>>

\* extract_video on the sample encode_audio wrote
V_DecodeAudio ==
    /\ v_pc = "audio_encoded"
    /\ v_dec' = VIV_decode_sample(v_enc)
    /\ v_pc' = "audio_decoded"
    /\ UNCHANGED <<v_cover, v_secret, v_f0, v_f1, v_decrypted, v_enc>>
    /\ UNCHANGED <<f_vars, l_vars, d_vars, q_vars, w_vars, x_vars, r_vars, s_vars, g_vars, c_vars>>

V_Next ==
    \/ V_HidePixel
    \/ V_ExtractFirst
    \/ V_ExtractSecond
    \/ V_EncodeAudio
    \/ V_DecodeAudio

(***************************************************************************)
(* VideoHandler.calculate_capacity (src/utils/video_handler.py) and the    *)
(* capacity test of DCTSteganography.hide_data.  A cover is the record of  *)
(* the DCT covers: its frame count is the number of its frames.            *)
(***************************************************************************)
\* the method strings given to calculate_capacity
Methods == {"lsb", "LSB", "dct", "DCT", "viv"}

\* method.lower()
Lower(method) ==
    CASE method = "LSB" -> "lsb"
      [] method = "DCT" -> "dct"
      [] OTHER -> method

\* calculate_capacity(video_path, method): bytes
calculate_capacity(cover, method) ==
    IF ~cover.opened THEN 0
    ELSE LET width == cover.width
             height == cover.height
             frame_count == Len(cover.frames)
         IN  IF Lower(method) = "lsb"
             THEN (width * height * 3 * frame_count) \div 8
             ELSE IF Lower(method) = "dct"
             THEN ((width \div 8) * (height \div 8) * frame_count) \div 8
             ELSE 0

\* a message of n bytes: n times 'A'
MessageOfBytes(n) == [i \in 1..n |-> 65]

\* no capacity computed yet
NoCapacity == 0

Q_Init ==
    /\ q_pc = "idle"
    /\ q_cover = DCTUnopenable
    /\ q_method = "lsb"
    /\ q_capacity = NoCapacity
    /\ q_len = 0
    /\ q_hide = FALSE

\* calculate_capacity(cover, method)
Q_CalculateCapacity(cover, method) ==
    /\ q_pc = "idle"
    /\ q_cover' = cover
    /\ q_method' = method
    /\ q_capacity' = calculate_capacity(cover, method)
    /\ q_pc' = "known"
    /\ UNCHANGED <<q_len, q_hide>>
    /\ UNCHANGED <<f_vars, l_vars, d_vars, v_vars, w_vars, x_vars, r_vars, s_vars, g_vars, c_vars>>

\* DCTSteganography().hide_data(cover, out, message), the message being
\* extra bytes longer than the capacity computed for 'dct'
Q_HideData(extra) ==
    /\ q_pc = "known"
    /\ Lower(q_method) = "dct"
    /\ q_len' = q_capacity + extra
    /\ q_hide' = DCT_hide_data(q_cover, MessageOfBytes(q_capacity + extra),
                               DefaultQuantization).ret
    /\ q_pc' = "tried"
    /\ UNCHANGED <<q_cover, q_method, q_capacity>>
    /\ UNCHANGED <<f_vars, l_vars, d_vars, v_vars, w_vars, x_vars, r_vars, s_vars, g_vars, c_vars>>

Q_Next ==
    \/ \E cover \in DCTCovers, method \in Methods :
          Q_CalculateCapacity(cover, method)
    \/ \E extra \in {0, 1} : Q_HideData(extra)

(***************************************************************************)
(* VideoInVideoSteganography at the level of files                         *)
(* (src/steganography/video_in_video.py).  A video is [opened, frames,     *)
(* audio]: whether cv2.VideoCapture opens it, its frame count, whether it  *)
(* has an audio track.  The working directories are [enc, files, pngs,     *)
(* out_dir]: whether enc/ exists, the named files in it, the number of     *)
(* <n>.png files in it, whether out/ exists.  A call of ffmpeg either does *)
(* its work or leaves no file (the program is missing or fails);           *)
(* subprocess.call raises in neither case.                                 *)
(***************************************************************************)
\* most frames in a cover, secret or stego video
MaxVIVFrames == 3
\* most hide_video and extract_video calls in a run
MaxVIVCalls == 2

NoVIVVideo == [opened |-> FALSE, frames |-> 0, audio |-> FALSE]

VIVVideos ==
    {NoVIVVideo}
    \cup {[opened |-> TRUE, frames |-> n, audio |-> a] :
             n \in 0..MaxVIVFrames, a \in BOOLEAN}

NoDirs == [enc |-> FALSE, files |-> {}, pngs |-> 0, out_dir |-> FALSE]

\* __init__: enc/ and out/ made if they are not there
VIV_init(fs) == [fs EXCEPT !.enc = TRUE, !.out_dir = TRUE]

\* ffmpeg ... -i <video> enc/<name>.wav
FfmpegWav(fs, video, name, ffmpeg_ok) ==
    IF ffmpeg_ok /\ fs.enc /\ video.opened /\ video.audio
    THEN [fs EXCEPT !.files = @ \cup {name}]
    ELSE fs

\* wave.open(enc/<name>, 'wb'), or cv2.VideoWriter(enc/<name>, ...)
CreateInEnc(fs, name) ==
    IF fs.enc THEN [fs EXCEPT !.files = @ \cup {name}] ELSE fs

\* rm -r enc
RemoveEnc(fs) == [fs EXCEPT !.enc = FALSE, !.files = {}, !.pngs = 0]

\* the path the call does not write keeps the file it holds
VIVResult(ret, fs, output) == [ret |-> ret, fs |-> fs, output |-> output]

\* the test of hide_video with its operands exchanged
VIV_cover_too_short_swapped(cover, secret) == secret.frames < cover.frames

\* src_frame_cnt < sec_frame_cnt
VIV_cover_too_short(cover, secret) == cover.frames < secret.frames

\* hide_video(cover_path, secret_path, output_path): what it returns, the
\* working directories and the file at output_path afterwards
VIV_hide_video(fs, cover, secret, output, ffmpeg_ok) ==
    IF VIV_cover_too_short(cover, secret)
    THEN VIVResult(FALSE, fs, output)
    ELSE IF ~secret.opened
    \* sec_frame_cnt / sec_fps with both 0.0: ZeroDivisionError
    THEN VIVResult(FALSE, fs, output)
    ELSE LET fs1 == FfmpegWav(fs, cover, "cvr.wav", ffmpeg_ok)
             fs2 == FfmpegWav(fs1, secret, "scr.wav", ffmpeg_ok)
             \* encode_audio: enc.wav opened for writing, then the two read
             fs3 == CreateInEnc(fs2, "enc.wav")
         IN  IF ~fs2.enc \/ "scr.wav" \notin fs3.files
                \/ "cvr.wav" \notin fs3.files
             THEN VIVResult(FALSE, fs3, output)
             ELSE IF cover.frames < secret.frames
             \* src.read() yields None: TypeError in the loop
             THEN VIVResult(FALSE, [fs3 EXCEPT !.pngs = 2 * cover.frames],
                            output)
             ELSE LET fs4 == [fs3 EXCEPT !.pngs = 2 * secret.frames]
                      saved == IF ffmpeg_ok /\ fs4.pngs > 0
                               THEN [opened |-> TRUE, frames |-> fs4.pngs,
                                     audio |-> TRUE]
                               ELSE NoVIVVideo
                  IN  VIVResult(TRUE, RemoveEnc(fs4), saved)

\* extract_video(stego_path, output_path): what it returns, the working
\* directories and the file at output_path afterwards
VIV_extract_video(fs, stego, output, ffmpeg_ok) ==
    LET fs1 == CreateInEnc(fs, "decrypted_secret.avi")
        fs2 == FfmpegWav(fs1, stego, "enc.wav", ffmpeg_ok)
        fs3 == CreateInEnc(fs2, "dec.wav")
    IN  IF ~fs2.enc \/ "enc.wav" \notin fs3.files
        THEN VIVResult(FALSE, fs3, output)
        ELSE LET written == stego.frames \div 2
                 saved == IF ffmpeg_ok /\ written > 0
                          THEN [opened |-> TRUE, frames |-> written,
                                audio |-> TRUE]
                          ELSE NoVIVVideo
             IN  VIVResult(TRUE, RemoveEnc(fs3), saved)

W_Init ==
    /\ w_pc = "none"
    /\ w_calls = 0
    /\ w_fs = NoDirs
    /\ w_before = NoDirs
    /\ w_cover = NoVIVVideo
    /\ w_secret = NoVIVVideo
    /\ w_stego = NoVIVVideo
    /\ w_stego_before = NoVIVVideo
    /\ w_extracted = NoVIVVideo
    /\ w_ret = FALSE

\* VideoInVideoSteganography()
W_Construct ==
    /\ w_pc \in {"none", "hidden", "extracted"}
    /\ w_fs' = VIV_init(w_fs)
    /\ w_pc' = "ready"
    /\ UNCHANGED <<w_calls, w_before, w_cover, w_secret, w_stego,
                   w_stego_before, w_extracted, w_ret>>
    /\ UNCHANGED <<f_vars, l_vars, d_vars, v_vars, q_vars, x_vars, r_vars, s_vars, g_vars, c_vars>>

\* hide_video(cover, secret, stego path) on the object constructed last
W_HideVideo(cover, secret, ffmpeg_ok) ==
    /\ w_pc \in {"ready", "hidden", "extracted"}
    /\ w_calls < MaxVIVCalls
    /\ LET r == VIV_hide_video(w_fs, cover, secret, w_stego, ffmpeg_ok)
       IN  /\ w_ret' = r.ret
           /\ w_fs' = r.fs
           /\ w_stego' = r.output
    /\ w_before' = w_fs
    /\ w_stego_before' = w_stego
    /\ w_cover' = cover
    /\ w_secret' = secret
    /\ w_calls' = w_calls + 1
    /\ w_pc' = "hidden"
    /\ UNCHANGED w_extracted
    /\ UNCHANGED <<f_vars, l_vars, d_vars, v_vars, q_vars, x_vars, r_vars, s_vars, g_vars, c_vars>>

\* extract_video(stego, extracted path) on the object constructed last, of
\* the file hide_video wrote or of another video
W_ExtractVideo(stego, ffmpeg_ok) ==
    /\ w_pc \in {"ready", "hidden", "extracted"}
    /\ w_calls < MaxVIVCalls
    /\ LET r == VIV_extract_video(w_fs, stego, w_extracted, ffmpeg_ok)
       IN  /\ w_ret' = r.ret
           /\ w_fs' = r.fs
           /\ w_extracted' = r.output
    /\ w_before' = w_fs
    /\ w_cover' = stego
    /\ w_calls' = w_calls + 1
    /\ w_pc' = "extracted"
    /\ UNCHANGED <<w_secret, w_stego, w_stego_before>>
    /\ UNCHANGED <<f_vars, l_vars, d_vars, v_vars, q_vars, x_vars, r_vars, s_vars, g_vars, c_vars>>

\* extract_video of the file hide_video wrote, or of any other video
W_ExtractAny ==
    \E stego \in VIVVideos \cup {w_stego}, ffmpeg_ok \in BOOLEAN :
        W_ExtractVideo(stego, ffmpeg_ok)

W_Next ==
    \/ W_Construct
    \/ \E cover \in VIVVideos, secret \in VIVVideos, ffmpeg_ok \in BOOLEAN :
          W_HideVideo(cover, secret, ffmpeg_ok)
    \/ W_ExtractAny

(***************************************************************************)
(* DCTSteganography.extract_data as the walk it is: one frame read or one  *)
(* block per step.                                                         *)
(***************************************************************************)

\* width and height of the stego videos given to extract_data
StegoSide == 48

\* a block whose coefficient at (4,5) has the sign extract_bit reads as bit
StegoBlock(bit) == IF bit = 1 THEN GrayBlock(-60) ELSE GrayBlock(60)

\* the bits hide_data frames for a message: "<length>:<message>"
StegoBits(text) ==
    DCT_text_to_binary(PyStr(Len(text)) \o <<Colon>> \o text)

\* the bit strings the stego videos carry: the framed bits of each message,
\* and nothing
StegoStreams == {StegoBits(text) : text \in DCTTexts} \cup {<<>>}

\* a video of n frames whose visited blocks carry, in walk order, the
\* binary string bits and then the bit pad; the blocks the walk skips are
\* flat
StegoVideo(bits, n, pad) ==
    LET visit == VisitedBlocks(StegoSide, StegoSide)
        BitAt(j) == IF j <= Len(bits) THEN bits[j] - 48 ELSE pad
        Place(f, i) ==
            IF \E k \in 1..Len(visit) : visit[k] = i
            THEN StegoBlock(BitAt((f - 1) * Len(visit)
                                  + (CHOOSE k \in 1..Len(visit) :
                                         visit[k] = i)))
            ELSE GrayBlock(0)
    IN  [exists |-> TRUE, width |-> StegoSide, height |-> StegoSide,
         frames |-> [f \in 1..n |->
                        [i \in 1..((StegoSide \div 8) * (StegoSide \div 8))
                            |-> Place(f, i)]]]

X_Init ==
    /\ x_pc = "idle"
    /\ x_video = NoDCTVideo
    /\ x_carried = <<>>
    /\ x_fi = 0
    /\ x_k = 0
    /\ x_binary_data = <<>>
    /\ x_ret = <<>>

\* extract_data(video_path) up to the frame loop, the video carrying bits
X_Open(bits, n, pad) ==
    /\ x_pc = "idle"
    /\ x_video' = StegoVideo(bits, n, pad)
    /\ x_carried' = bits
    /\ x_fi' = 0
    /\ x_k' = 0
    /\ x_binary_data' = <<>>
    /\ x_pc' = "read"
    /\ UNCHANGED x_ret
    /\ UNCHANGED <<f_vars, l_vars, d_vars, v_vars, q_vars, w_vars, r_vars, s_vars, g_vars, c_vars>>

\* ret, frame = video.read(): the next frame, or the end of the loop and
\* the return of "No hidden message found"
X_ReadFrame ==
    /\ x_pc = "read"
    /\ IF x_fi + 1 > Len(x_video.frames)
       THEN /\ x_pc' = "ended"
            /\ x_ret' = NoHiddenMessage
            /\ UNCHANGED <<x_fi, x_k>>
       ELSE /\ x_fi' = x_fi + 1
            /\ x_k' = 1
            /\ x_pc' = IF VisitedBlocks(x_video.width, x_video.height) = <<>>
                       THEN "read" ELSE "block"
            /\ UNCHANGED x_ret
    /\ UNCHANGED <<x_video, x_carried, x_binary_data>>
    /\ UNCHANGED <<f_vars, l_vars, d_vars, v_vars, q_vars, w_vars, r_vars, s_vars, g_vars, c_vars>>

\* one pass of the body of the block loops: extract a bit, and when the bits
\* fill whole bytes try to parse them
X_Block ==
    /\ x_pc = "block"
    /\ LET visit == VisitedBlocks(x_video.width, x_video.height)
           bit == DCT_extract_bit(GrayCoeff(x_video.frames[x_fi][visit[x_k]]))
           grown == Append(x_binary_data, DigitChar(bit))
           parsed == IF Len(grown) % 8 = 0 THEN DCT_try_parse(grown)
                     ELSE Err("not a whole byte")
       IN  /\ x_binary_data' = grown
           /\ IF parsed.ok
              THEN /\ x_ret' = parsed.val
                   /\ x_pc' = "returned"
                   /\ UNCHANGED x_k
              ELSE /\ x_k' = x_k + 1
                   /\ x_pc' = IF x_k + 1 > Len(visit) THEN "read" ELSE "block"
                   /\ UNCHANGED x_ret
    /\ UNCHANGED <<x_video, x_carried, x_fi>>
    /\ UNCHANGED <<f_vars, l_vars, d_vars, v_vars, q_vars, w_vars, r_vars, s_vars, g_vars, c_vars>>

X_Next ==
    \/ \E bits \in StegoStreams, n \in 1..MaxDCTFrames, pad \in {0, 1} :
           X_Open(bits, n, pad)
    \/ X_ReadFrame
    \/ X_Block

(***************************************************************************)
(* hide_video: the secret frame resized to the cover and padded with       *)
(* black.  A frame is its shape, [w, h].                                   *)
(***************************************************************************)

\* largest width and height of a cover or secret video
MaxDim == 6

Dims == 1..MaxDim

Shape(w, h) == [w |-> w, h |-> h]

NoShape == Err("not called")

\* int(num / den) where the quotient is a double computed through the
\* rounded aspect ratio: where the exact quotient is a whole number the
\* double may lie just below it (int(9 / (9 / 7)) is 6), so int gives the
\* whole number or, when low, one less
IntOfQuotient(num, den, low) ==
    IF num % den = 0 /\ low THEN (num \div den) - 1 ELSE num \div den

\* cv2.resize(src, (w, h)): an empty size is refused
cv2_resize(w, h) ==
    IF w <= 0 \/ h <= 0 THEN Err("cv2.error") ELSE Ok(Shape(w, h))

\* resize(src, w, h)
VIV_resize_wh(w, h) == cv2_resize(w, h)

\* resize(src, w=w, ar=ar), ar being ar_w / ar_h
VIV_resize_w(w, ar_w, ar_h, low) ==
    cv2_resize(w, IntOfQuotient(w * ar_h, ar_w, low))

\* resize(src, h=h, ar=ar)
VIV_resize_h(h, ar_w, ar_h, low) ==
    cv2_resize(IntOfQuotient(h * ar_w, ar_h, low), h)

\* src_frame.shape < sec_frame.shape: tuples (height, width, 3) in
\* lexicographic order
ShapeLess(a, b) == a.h < b.h \/ (a.h = b.h /\ a.w < b.w)

\* the first resize taken as it is
VIV_refit_wide_unchecked(first, src, sec, low) == first

\* the test on the height the first resize gave, and the second resize
VIV_refit_wide(first, src, sec, low) ==
    IF first.ok /\ first.val.h > src.h
    THEN VIV_resize_h(src.h, sec.w, sec.h, low)
    ELSE first

\* the same on the width, for a secret video not wider than high
VIV_refit_tall(first, src, sec, low) ==
    IF first.ok /\ first.val.w > src.w
    THEN VIV_resize_w(src.w, sec.w, sec.h, low)
    ELSE first

\* the conditional resize of hide_video: the secret frame afterwards, or
\* the exception raised
VIV_fit_frame(src, sec, low1, low2) ==
    IF src.w * sec.h = sec.w * src.h /\ ShapeLess(src, sec)
    THEN VIV_resize_wh(src.w, src.h)
    ELSE IF src.w * sec.h # sec.w * src.h /\ (src.w < sec.w \/ src.h < sec.h)
    THEN IF sec.w > sec.h
         THEN VIV_refit_wide(VIV_resize_w(src.w, sec.w, sec.h, low1),
                             src, sec, low2)
         ELSE VIV_refit_tall(VIV_resize_h(src.h, sec.w, sec.h, low1),
                             src, sec, low2)
    ELSE Ok(sec)

\* np.zeros((rows, cols, 3)): a negative dimension is refused
np_zeros(rows, cols) ==
    IF rows < 0 \/ cols < 0 THEN Err("ValueError") ELSE Ok(Shape(cols, rows))

\* cv2.hconcat([sec_frame, np.zeros((sec_frame.shape[0],
\* src_w - sec_frame.shape[1], 3))]) and then cv2.vconcat with
\* np.zeros((src_h - sec_frame.shape[0], sec_frame.shape[1], 3))
VIV_pad_frame(frame, src) ==
    LET right == np_zeros(frame.h, src.w - frame.w)
    IN  IF ~right.ok THEN right
        ELSE LET wide == Shape(frame.w + right.val.w, frame.h)
                 below == np_zeros(src.h - wide.h, wide.w)
             IN  IF ~below.ok THEN below
                 ELSE Ok(Shape(wide.w, wide.h + below.val.h))

R_Init ==
    /\ r_pc = "idle"
    /\ r_src = Shape(1, 1)
    /\ r_sec = Shape(1, 1)
    /\ r_resized = NoShape
    /\ r_prepared = NoShape

\* one pass of the frame loop up to the resize, for a cover of shape src and
\* a secret video of shape sec
R_Resize(src, sec, low1, low2) ==
    /\ r_pc = "idle"
    /\ r_src' = src
    /\ r_sec' = sec
    /\ r_resized' = VIV_fit_frame(src, sec, low1, low2)
    /\ r_pc' = "resized"
    /\ UNCHANGED r_prepared
    /\ UNCHANGED <<f_vars, l_vars, d_vars, v_vars, q_vars, w_vars, x_vars, s_vars, g_vars, c_vars>>

\* the padding of the resized frame; an exception of the resize has
\* already ended hide_video
R_Pad ==
    /\ r_pc = "resized"
    /\ r_prepared' = IF r_resized.ok THEN VIV_pad_frame(r_resized.val, r_src)
                     ELSE r_resized
    /\ r_pc' = "prepared"
    /\ UNCHANGED <<r_src, r_sec, r_resized>>
    /\ UNCHANGED <<f_vars, l_vars, d_vars, v_vars, q_vars, w_vars, x_vars, s_vars, g_vars, c_vars>>

R_Next ==
    \/ \E sw \in Dims, sh \in Dims, cw \in Dims, ch \in Dims,
          low1 \in BOOLEAN, low2 \in BOOLEAN :
           R_Resize(Shape(sw, sh), Shape(cw, ch), low1, low2)
    \/ R_Pad

(***************************************************************************)
(* hide_video and extract_video on the frames themselves.  A frame is one  *)
(* channel value, the arithmetic being the same on every channel of every  *)
(* pixel; cover and secret have the same shape, so the prepared secret     *)
(* frame is the secret frame.                                              *)
(***************************************************************************)

\* most frames of a secret video; a cover has up to one more
MaxSecretFrames == 2

\* channel values of cover frames
CoverValues == {0, 167}

\* channel values of secret frames
SecretValues == {0, 90, 219}

CoverFrames ==
    UNION {[1..n -> CoverValues] : n \in 1..(MaxSecretFrames + 1)}

SecretFrames == UNION {[1..n -> SecretValues] : n \in 1..MaxSecretFrames}

\* a video file with an audio track, as hide_video and extract_video see it
WithAudio(frames) ==
    [opened |-> TRUE, frames |-> Len(frames), audio |-> TRUE]

\* the frame loop of hide_video from secret frame k on: the files
\* enc/1.png, enc/2.png, ... in the order ffmpeg reads them
RECURSIVE VIV_hide_frames(_, _, _)
VIV_hide_frames(cover, secret, k) ==
    IF k > Len(secret) THEN <<>>
    ELSE <<VIV_encrypt_first(cover[k], secret[k]),
           VIV_encrypt_second(cover[k], secret[k])>>
         \o VIV_hide_frames(cover, secret, k + 1)

\* largest change of a channel value by the Motion-JPEG encoder that
\* cv2.VideoWriter_fourcc(*"MJPG") selects
MJPGError == 1

\* the values a frame written through the MJPG writer may have when read
\* back: JPEG is lossy
MJPG(value) ==
    {u \in (value - MJPGError)..(value + MJPGError) : u \in Uint8}

\* the same for the frames of a video, one after the other
RECURSIVE MJPG_frames(_)
MJPG_frames(frames) ==
    IF frames = <<>> THEN {<<>>}
    ELSE {<<u>> \o rest : u \in MJPG(Head(frames)),
                          rest \in MJPG_frames(Tail(frames))}

\* the frame loop of extract_video from frame fn on: the frames given to
\* out.write, the frame of an odd fn being kept in decrypted_frame
RECURSIVE VIV_extract_frames(_, _, _)
VIV_extract_frames(stego, fn, decrypted_frame) ==
    IF fn > Len(stego) THEN <<>>
    ELSE IF fn % 2 = 1
    THEN VIV_extract_frames(stego, fn + 1, VIV_decrypt_first(stego[fn]))
    ELSE <<VIV_decrypt_second(decrypted_frame, stego[fn])>>
         \o VIV_extract_frames(stego, fn + 1, decrypted_frame)

S_Init ==
    /\ s_pc = "idle"
    /\ s_cover = <<>>
    /\ s_secret = <<>>
    /\ s_hide_ret = FALSE
    /\ s_stego = <<>>
    /\ s_ret = FALSE
    /\ s_out = <<>>

\* VideoInVideoSteganography().hide_video(cover, secret, stego path), both
\* videos with an audio track
S_HideVideo(cover, secret, ffmpeg_ok) ==
    /\ s_pc = "idle"
    /\ s_cover' = cover
    /\ s_secret' = secret
    /\ LET r == VIV_hide_video(VIV_init(NoDirs), WithAudio(cover),
                               WithAudio(secret), NoVIVVideo, ffmpeg_ok)
       IN  /\ s_hide_ret' = r.ret
           /\ s_stego' = IF r.ret /\ r.output.opened
                         THEN VIV_hide_frames(cover, secret, 1)
                         ELSE <<>>
    /\ s_pc' = "hidden"
    /\ UNCHANGED <<s_ret, s_out>>
    /\ UNCHANGED <<f_vars, l_vars, d_vars, v_vars, q_vars, w_vars, x_vars, r_vars, g_vars, c_vars>>

\* VideoInVideoSteganography().extract_video(stego path, output path) of
\* the file hide_video wrote; written holds what the MJPG writer kept of the
\* frames given to it
S_ExtractVideo(written, ffmpeg_ok) ==
    /\ s_pc = "hidden"
    /\ s_stego # <<>>
    /\ LET r == VIV_extract_video(VIV_init(NoDirs), WithAudio(s_stego),
                                  NoVIVVideo, ffmpeg_ok)
       IN  /\ s_ret' = r.ret
           /\ s_out' = IF r.ret /\ r.output.opened THEN written ELSE <<>>
    /\ s_pc' = "extracted"
    /\ UNCHANGED <<s_cover, s_secret, s_hide_ret, s_stego>>
    /\ UNCHANGED <<f_vars, l_vars, d_vars, v_vars, q_vars, w_vars, x_vars, r_vars, g_vars, c_vars>>

\* extract_video with every outcome of the MJPG writer
S_ExtractAny ==
    \E written \in MJPG_frames(VIV_extract_frames(s_stego, 1, 0)),
       ffmpeg_ok \in BOOLEAN :
        S_ExtractVideo(written, ffmpeg_ok)

S_Next ==
    \/ \E cover \in CoverFrames, secret \in SecretFrames,
          ffmpeg_ok \in BOOLEAN :
           S_HideVideo(cover, secret, ffmpeg_ok)
    \/ S_ExtractAny

(***************************************************************************)
(* The encode tab: its fields, the Encode button, the running encode       *)
(* threads.  A file is what the path names; every video is LSBWidth x      *)
(* LSBHeight and has an audio track.                                       *)
(***************************************************************************)

\* most frames of a video picked in a file dialog
MaxGUIFrames == 2
\* longest message typed, in bytes
MaxMessageBytes == 7
\* most clicks on Encode that start a thread
MaxStarts == 2

\* the lengths of the messages typed: none, one that fits the first frame
\* of the smallest cover, the longest that cover's capacity admits, and one
\* byte more
MessageSizes == {0, 3, MaxMessageBytes - 1, MaxMessageBytes}

\* input_video_path = None, secret_path = ""
NoFile == [set |-> FALSE, opened |-> FALSE, count |-> 0]

\* the files a dialog returns: one cv2 cannot open, and videos
GUIFiles ==
    {[set |-> TRUE, opened |-> FALSE, count |-> 0]}
    \cup {[set |-> TRUE, opened |-> TRUE, count |-> n] : n \in 0..MaxGUIFrames}

\* output_video_path: None, from save_output_path, from update_output_path,
\* from the save dialog
OutputPaths == {"", "_steg", "_stego", "picked"}

\* the file as VideoHandler.calculate_capacity sees it
AsCapacityCover(file) ==
    [opened |-> file.opened, width |-> LSBWidth, height |-> LSBHeight,
     frames |-> [k \in 1..file.count |-> 0]]

\* the file as LSBSteganography.hide_data sees it
AsLSBCover(file) ==
    [opened |-> file.opened, frames |-> [k \in 1..file.count |-> ConstFrame(0)]]

\* the file as VideoInVideoSteganography.hide_video sees it
AsVIVVideo(file) ==
    [opened |-> file.opened, frames |-> file.count, audio |-> file.opened]

\* VideoHandler.validate_video(file_path)
validate_video(file) == file.opened /\ file.count >= 1

\* VideoHandler.get_video_info(path).get('frame_count', 0): a file that
\* cannot be opened gives {"error": ...} and so 0
InfoFrameCount(file) == IF file.opened THEN file.count ELSE 0

\* secret_frames <= (cover_frames // 2)
secret_fits(cover_frames, secret_frames) ==
    secret_frames <= (cover_frames \div 2)

\* EncodeTab.check_encode_button
check_encode_button(tab) ==
    IF ~tab.input.set THEN tab
    ELSE LET enable ==
                 IF tab.method = "VIV"
                 THEN /\ tab.secret.set
                      /\ tab.output # ""
                      /\ secret_fits(InfoFrameCount(tab.input),
                                     InfoFrameCount(tab.secret))
                 ELSE /\ tab.message > 0
                      /\ tab.output # ""
                      /\ tab.message
                            <= calculate_capacity(AsCapacityCover(tab.input),
                                                  tab.method)
         IN  [tab EXCEPT !.enabled = enable]

\* EncodeTab.update_capacity: the label, then check_encode_button
update_capacity(tab) ==
    IF ~tab.input.set THEN tab ELSE check_encode_button(tab)

\* EncodeTab.update_message_stats, the slot of message_input.textChanged
update_message_stats(tab) == check_encode_button(update_capacity(tab))

\* EncodeTab.method_changed
method_changed(tab, method) ==
    check_encode_button([tab EXCEPT !.method = method, !.output = ""])

\* EncodeTab.set_input_video
set_input_video(tab, file) ==
    IF ~validate_video(file) THEN tab
    ELSE check_encode_button(
             update_capacity([tab EXCEPT !.input = file,
                                         !.output = "_steg"]))

\* EncodeTab.browse_output with a path picked
browse_output(tab) ==
    IF ~tab.input.set THEN tab
    ELSE check_encode_button([tab EXCEPT !.output = "picked"])

\* EncodeTab.update_output_path
update_output_path(tab) ==
    IF ~tab.input.set THEN tab ELSE [tab EXCEPT !.output = "_stego"]

\* EncodeTab.browse_secret_video with a file picked
browse_secret_video(tab, file) ==
    update_output_path([tab EXCEPT !.secret = file])

\* EncodeTab.validate_inputs
validate_inputs(tab) ==
    /\ tab.input.set
    /\ IF tab.method = "VIV" THEN tab.secret.set ELSE tab.message > 0
    /\ tab.output # ""

\* the EncodeThread start_encoding makes
NewEncodeThread(tab) ==
    [method |-> tab.method, video_path |-> tab.input,
     output_path |-> tab.output,
     message |-> IF tab.method = "VIV" THEN 0 ELSE tab.message,
     secret_path |-> IF tab.method = "VIV" THEN tab.secret ELSE NoFile]

\* EncodeTab.clear_form; message_input.clear() runs update_message_stats,
\* which finds no input video
clear_form(tab) ==
    [update_message_stats([tab EXCEPT !.input = NoFile, !.output = "",
                                      !.secret = NoFile, !.message = 0])
        EXCEPT !.enabled = FALSE]

\* EncodeTab.encoding_finished(success, message)
encoding_finished(tab, success) ==
    LET on == [tab EXCEPT !.enabled = TRUE]
    IN  IF success THEN clear_form(on) ELSE on

\* what the hide method called by EncodeThread.run returns: hide_data a
\* tuple (bool, str), hide_video a bool; flag is the bool
EncodeThread_result(thread, ffmpeg_ok) ==
    IF thread.method = "LSB"
    THEN [tuple |-> TRUE,
          flag |-> LSB_hide_data(AsLSBCover(thread.video_path),
                                 MessageOfBytes(thread.message), <<>>,
                                 ffmpeg_ok).result[1]]
    ELSE [tuple |-> FALSE,
          flag |-> VIV_hide_video(VIV_init(NoDirs),
                                  AsVIVVideo(thread.video_path),
                                  AsVIVVideo(thread.secret_path), NoVIVVideo,
                                  ffmpeg_ok).ret]

\* the test "if result": a tuple of two elements is true whatever it holds
Truthy(result) == result.tuple \/ result.flag

\* EncodeThread.run: the arguments of finished.emit; neither hide method
\* lets an exception out
EncodeThread_run(thread, ffmpeg_ok) ==
    IF Truthy(EncodeThread_result(thread, ffmpeg_ok))
    THEN <<TRUE, thread.output_path>>
    ELSE <<FALSE, "Failed to encode">>

NewTab ==
    [method |-> "LSB", input |-> NoFile, secret |-> NoFile, output |-> "",
     message |-> 0, enabled |-> FALSE]

G_Init ==
    /\ g_tab = NewTab
    /\ g_threads = <<>>
    /\ g_starts = 0
    /\ g_hide_ok = FALSE
    /\ g_emitted = <<FALSE, "not emitted">>
    /\ g_shown = "nothing"

\* a radio button toggled
G_MethodChanged(method) ==
    /\ g_tab' = method_changed(g_tab, method)
    /\ UNCHANGED <<g_threads, g_starts, g_hide_ok, g_emitted, g_shown>>
    /\ UNCHANGED <<f_vars, l_vars, d_vars, v_vars, q_vars, w_vars, x_vars, r_vars, s_vars, c_vars>>

\* Browse for the cover video, a file picked
G_BrowseVideo(file) ==
    /\ g_tab' = set_input_video(g_tab, file)
    /\ UNCHANGED <<g_threads, g_starts, g_hide_ok, g_emitted, g_shown>>
    /\ UNCHANGED <<f_vars, l_vars, d_vars, v_vars, q_vars, w_vars, x_vars, r_vars, s_vars, c_vars>>

\* Browse for the secret video, a file picked
G_BrowseSecretVideo(file) ==
    /\ g_tab' = browse_secret_video(g_tab, file)
    /\ UNCHANGED <<g_threads, g_starts, g_hide_ok, g_emitted, g_shown>>
    /\ UNCHANGED <<f_vars, l_vars, d_vars, v_vars, q_vars, w_vars, x_vars, r_vars, s_vars, c_vars>>

\* Browse for the output path, a path picked
G_BrowseOutput ==
    /\ g_tab' = browse_output(g_tab)
    /\ UNCHANGED <<g_threads, g_starts, g_hide_ok, g_emitted, g_shown>>
    /\ UNCHANGED <<f_vars, l_vars, d_vars, v_vars, q_vars, w_vars, x_vars, r_vars, s_vars, c_vars>>

\* the message edited to one of n bytes
G_EditMessage(n) ==
    /\ n # g_tab.message
    /\ g_tab' = update_message_stats([g_tab EXCEPT !.message = n])
    /\ UNCHANGED <<g_threads, g_starts, g_hide_ok, g_emitted, g_shown>>
    /\ UNCHANGED <<f_vars, l_vars, d_vars, v_vars, q_vars, w_vars, x_vars, r_vars, s_vars, c_vars>>

\* a click on the enabled Encode button: EncodeTab.start_encoding
G_StartEncoding ==
    /\ g_tab.enabled
    /\ g_starts < MaxStarts
    /\ validate_inputs(g_tab)
    /\ g_tab' = [g_tab EXCEPT !.enabled = FALSE]
    /\ g_threads' = Append(g_threads, NewEncodeThread(g_tab))
    /\ g_starts' = g_starts + 1
    /\ UNCHANGED <<g_hide_ok, g_emitted, g_shown>>
    /\ UNCHANGED <<f_vars, l_vars, d_vars, v_vars, q_vars, w_vars, x_vars, r_vars, s_vars, c_vars>>

\* a running EncodeThread runs to its end and the tab handles its finished
\* signal
G_EncodeThreadRun(i, ffmpeg_ok) ==
    /\ i \in 1..Len(g_threads)
    /\ LET thread == g_threads[i]
           emitted == EncodeThread_run(thread, ffmpeg_ok)
       IN  /\ g_hide_ok' = EncodeThread_result(thread, ffmpeg_ok).flag
           /\ g_emitted' = emitted
           /\ g_shown' = IF emitted[1] THEN "Success" ELSE "Encoding Failed"
           /\ g_tab' = encoding_finished(g_tab, emitted[1])
    /\ g_threads' = [k \in 1..(Len(g_threads) - 1) |->
                        IF k < i THEN g_threads[k] ELSE g_threads[k + 1]]
    /\ UNCHANGED g_starts
    /\ UNCHANGED <<f_vars, l_vars, d_vars, v_vars, q_vars, w_vars, x_vars, r_vars, s_vars, c_vars>>

\* any of the running threads ends
G_EncodeThreadEnds ==
    \E i \in 1..Len(g_threads), ffmpeg_ok \in BOOLEAN :
        G_EncodeThreadRun(i, ffmpeg_ok)

G_Next ==
    \/ \E method \in {"LSB", "VIV"} : G_MethodChanged(method)
    \/ \E file \in GUIFiles : G_BrowseVideo(file)
    \/ \E file \in GUIFiles : G_BrowseSecretVideo(file)
    \/ G_BrowseOutput
    \/ \E n \in MessageSizes : G_EditMessage(n)
    \/ G_StartEncoding
    \/ G_EncodeThreadEnds

(***************************************************************************)
(* A hide_video call and an extract_video call running at the same time,   *)
(* as the encode thread and the decode thread of the window do             *)
(* (src/gui/encode_tab.py, src/gui/decode_tab.py).  Each thread makes its  *)
(* own VideoInVideoSteganography, and every such object works in the       *)
(* directory enc/ of the current directory                                 *)
(* (src/steganography/video_in_video.py).  The cover, the secret, the      *)
(* stego file read and the two output paths are five different files.  A   *)
(* step is one statement that touches enc/; c_wavs tells which call the    *)
(* samples of enc/enc.wav and enc/dec.wav come from.                       *)
(***************************************************************************)
\* a cover or a stego source with sound, of n frames
SoundVideo(n) == [opened |-> TRUE, frames |-> n, audio |-> TRUE]

\* no file at an output path
NoOutput == [opened |-> FALSE, frames |-> 0, audio |-> "none"]

NoWavs == [enc |-> "none", dec |-> "none"]

C_Init ==
    /\ c_hide = "start"
    /\ c_extract = "start"
    /\ c_fs = NoDirs
    /\ c_wavs = NoWavs
    /\ c_secret \in 1..MaxSecretFrames
    /\ c_stego_in \in {2 * n : n \in 1..MaxSecretFrames}
    /\ c_fn = 0
    /\ c_writer = FALSE
    /\ c_written = 0
    /\ c_stego = NoOutput
    /\ c_out = NoOutput
    /\ c_hide_ret = FALSE
    /\ c_extract_ret = FALSE

\* EncodeThread.run: steg = VideoInVideoSteganography()
C_HideConstruct ==
    /\ c_hide = "start"
    /\ c_fs' = VIV_init(c_fs)
    /\ c_hide' = "made"
    /\ UNCHANGED <<c_extract, c_wavs, c_secret, c_stego_in, c_fn, c_writer,
                   c_written, c_stego, c_out, c_hide_ret, c_extract_ret>>
    /\ UNCHANGED <<f_vars, l_vars, d_vars, v_vars, q_vars, w_vars, x_vars, r_vars, s_vars, g_vars>>

\* hide_video: the two ffmpeg calls that write enc/cvr.wav and enc/scr.wav
C_HideWavs ==
    /\ c_hide = "made"
    /\ c_fs' = FfmpegWav(FfmpegWav(c_fs, SoundVideo(c_secret), "cvr.wav",
                                   TRUE),
                         SoundVideo(c_secret), "scr.wav", TRUE)
    /\ c_hide' = "wavs"
    /\ UNCHANGED <<c_extract, c_wavs, c_secret, c_stego_in, c_fn, c_writer,
                   c_written, c_stego, c_out, c_hide_ret, c_extract_ret>>
    /\ UNCHANGED <<f_vars, l_vars, d_vars, v_vars, q_vars, w_vars, x_vars, r_vars, s_vars, g_vars>>

\* hide_video: encode_audio opens enc/enc.wav for writing, reads the two
\* wav files and writes the mixed samples; a file it cannot open raises,
\* and hide_video returns False
C_HideEncodeAudio ==
    /\ c_hide = "wavs"
    /\ c_fs' = CreateInEnc(c_fs, "enc.wav")
    /\ IF c_fs.enc /\ "scr.wav" \in c_fs.files /\ "cvr.wav" \in c_fs.files
       THEN /\ c_wavs' = [c_wavs EXCEPT !.enc = "hide"]
            /\ c_hide' = "frames"
            /\ UNCHANGED c_hide_ret
       ELSE /\ c_wavs' = IF c_fs.enc
                         THEN [c_wavs EXCEPT !.enc = "empty"]
                         ELSE c_wavs
            /\ c_hide' = "ended"
            /\ c_hide_ret' = FALSE
    /\ UNCHANGED <<c_extract, c_secret, c_stego_in, c_fn, c_writer,
                   c_written, c_stego, c_out, c_extract_ret>>
    /\ UNCHANGED <<f_vars, l_vars, d_vars, v_vars, q_vars, w_vars, x_vars, r_vars, s_vars, g_vars>>

\* hide_video: one turn of the loop, two cv2.imwrite calls into enc/;
\* imwrite into a directory that is gone writes nothing and raises nothing
C_HideWriteFrames ==
    /\ c_hide = "frames"
    /\ c_fn < 2 * c_secret
    /\ c_fn' = c_fn + 2
    /\ c_fs' = IF c_fs.enc THEN [c_fs EXCEPT !.pngs = @ + 2] ELSE c_fs
    /\ UNCHANGED <<c_hide, c_extract, c_wavs, c_secret, c_stego_in,
                   c_writer, c_written, c_stego, c_out, c_hide_ret,
                   c_extract_ret>>
    /\ UNCHANGED <<f_vars, l_vars, d_vars, v_vars, q_vars, w_vars, x_vars, r_vars, s_vars, g_vars>>

\* hide_video: ffmpeg joins enc/%d.png and enc/enc.wav into the output
C_HideSave ==
    /\ c_hide = "frames"
    /\ c_fn = 2 * c_secret
    /\ c_stego' = IF c_fs.pngs > 0 /\ "enc.wav" \in c_fs.files
                  THEN [opened |-> TRUE, frames |-> c_fs.pngs,
                        audio |-> c_wavs.enc]
                  ELSE NoOutput
    /\ c_hide' = "saved"
    /\ UNCHANGED <<c_extract, c_fs, c_wavs, c_secret, c_stego_in, c_fn,
                   c_writer, c_written, c_out, c_hide_ret, c_extract_ret>>
    /\ UNCHANGED <<f_vars, l_vars, d_vars, v_vars, q_vars, w_vars, x_vars, r_vars, s_vars, g_vars>>

\* hide_video: rm -r enc, return True
C_HideCleanup ==
    /\ c_hide = "saved"
    /\ c_fs' = RemoveEnc(c_fs)
    /\ c_wavs' = NoWavs
    /\ c_hide_ret' = TRUE
    /\ c_hide' = "ended"
    /\ UNCHANGED <<c_extract, c_secret, c_stego_in, c_fn, c_writer,
                   c_written, c_stego, c_out, c_extract_ret>>
    /\ UNCHANGED <<f_vars, l_vars, d_vars, v_vars, q_vars, w_vars, x_vars, r_vars, s_vars, g_vars>>

\* DecodeThread.run: steg = VideoInVideoSteganography()
C_ExtractConstruct ==
    /\ c_extract = "start"
    /\ c_fs' = VIV_init(c_fs)
    /\ c_extract' = "made"
    /\ UNCHANGED <<c_hide, c_wavs, c_secret, c_stego_in, c_fn, c_writer,
                   c_written, c_stego, c_out, c_hide_ret, c_extract_ret>>
    /\ UNCHANGED <<f_vars, l_vars, d_vars, v_vars, q_vars, w_vars, x_vars, r_vars, s_vars, g_vars>>

\* extract_video: cv2.VideoWriter on enc/decrypted_secret.avi; it opens
\* only when enc/ is there, and raises nothing when it does not open
C_ExtractOpenWriter ==
    /\ c_extract = "made"
    /\ c_fs' = CreateInEnc(c_fs, "decrypted_secret.avi")
    /\ c_writer' = c_fs.enc
    /\ c_extract' = "writer"
    /\ UNCHANGED <<c_hide, c_wavs, c_secret, c_stego_in, c_fn, c_written,
                   c_stego, c_out, c_hide_ret, c_extract_ret>>
    /\ UNCHANGED <<f_vars, l_vars, d_vars, v_vars, q_vars, w_vars, x_vars, r_vars, s_vars, g_vars>>

\* extract_video: ffmpeg -i <stego> enc/enc.wav, without -y: over a file
\* that is there ffmpeg asks, and writes or not by the answer it reads
C_ExtractWav(overwrite) ==
    /\ c_extract = "writer"
    /\ overwrite \/ "enc.wav" \in c_fs.files
    /\ IF c_fs.enc /\ (overwrite \/ "enc.wav" \notin c_fs.files)
       THEN /\ c_fs' = FfmpegWav(c_fs, SoundVideo(c_stego_in), "enc.wav",
                                 TRUE)
            /\ c_wavs' = [c_wavs EXCEPT !.enc = "extract"]
       ELSE UNCHANGED <<c_fs, c_wavs>>
    /\ c_extract' = "wav"
    /\ UNCHANGED <<c_hide, c_secret, c_stego_in, c_fn, c_writer, c_written,
                   c_stego, c_out, c_hide_ret, c_extract_ret>>
    /\ UNCHANGED <<f_vars, l_vars, d_vars, v_vars, q_vars, w_vars, x_vars, r_vars, s_vars, g_vars>>

\* extract_video: enc/dec.wav opened for writing, enc/enc.wav read and its
\* samples decoded into it; a file it cannot open raises, and
\* extract_video returns False
C_ExtractDecodeAudio ==
    /\ c_extract = "wav"
    /\ c_fs' = CreateInEnc(c_fs, "dec.wav")
    /\ IF c_fs.enc /\ "enc.wav" \in c_fs.files
       THEN /\ c_wavs' = [c_wavs EXCEPT !.dec = c_wavs.enc]
            /\ c_extract' = "frames"
            /\ UNCHANGED c_extract_ret
       ELSE /\ c_wavs' = IF c_fs.enc
                         THEN [c_wavs EXCEPT !.dec = "empty"]
                         ELSE c_wavs
            /\ c_extract' = "ended"
            /\ c_extract_ret' = FALSE
    /\ UNCHANGED <<c_hide, c_secret, c_stego_in, c_fn, c_writer, c_written,
                   c_stego, c_out, c_hide_ret>>
    /\ UNCHANGED <<f_vars, l_vars, d_vars, v_vars, q_vars, w_vars, x_vars, r_vars, s_vars, g_vars>>

\* extract_video: the loop, one out.write for every pair of frames read;
\* a writer that did not open writes nothing
C_ExtractWriteFrames ==
    /\ c_extract = "frames"
    /\ c_written' = IF c_writer THEN c_stego_in \div 2 ELSE 0
    /\ c_extract' = "written"
    /\ UNCHANGED <<c_hide, c_fs, c_wavs, c_secret, c_stego_in, c_fn,
                   c_writer, c_stego, c_out, c_hide_ret, c_extract_ret>>
    /\ UNCHANGED <<f_vars, l_vars, d_vars, v_vars, q_vars, w_vars, x_vars, r_vars, s_vars, g_vars>>

\* extract_video: ffmpeg joins enc/decrypted_secret.avi and enc/dec.wav
\* into the output
C_ExtractSave ==
    /\ c_extract = "written"
    /\ c_out' = IF /\ "decrypted_secret.avi" \in c_fs.files
                   /\ "dec.wav" \in c_fs.files
                   /\ c_written > 0
                THEN [opened |-> TRUE, frames |-> c_written,
                      audio |-> c_wavs.dec]
                ELSE NoOutput
    /\ c_extract' = "saved"
    /\ UNCHANGED <<c_hide, c_fs, c_wavs, c_secret, c_stego_in, c_fn,
                   c_writer, c_written, c_stego, c_hide_ret, c_extract_ret>>
    /\ UNCHANGED <<f_vars, l_vars, d_vars, v_vars, q_vars, w_vars, x_vars, r_vars, s_vars, g_vars>>

\* extract_video: rm -r enc, return True
C_ExtractCleanup ==
    /\ c_extract = "saved"
    /\ c_fs' = RemoveEnc(c_fs)
    /\ c_wavs' = NoWavs
    /\ c_extract_ret' = TRUE
    /\ c_extract' = "ended"
    /\ UNCHANGED <<c_hide, c_secret, c_stego_in, c_fn, c_writer, c_written,
                   c_stego, c_out, c_hide_ret>>
    /\ UNCHANGED <<f_vars, l_vars, d_vars, v_vars, q_vars, w_vars, x_vars, r_vars, s_vars, g_vars>>

C_ExtractWavAny == \E overwrite \in BOOLEAN : C_ExtractWav(overwrite)

C_Next ==
    \/ C_HideConstruct
    \/ C_HideWavs
    \/ C_HideEncodeAudio
    \/ C_HideWriteFrames
    \/ C_HideSave
    \/ C_HideCleanup
    \/ C_ExtractConstruct
    \/ C_ExtractOpenWriter
    \/ C_ExtractWavAny
    \/ C_ExtractDecodeAudio
    \/ C_ExtractWriteFrames
    \/ C_ExtractSave
    \/ C_ExtractCleanup

(***************************************************************************)
(* Specifications.                                                         *)
(***************************************************************************)

F_Idle ==
    /\ f_pc = "off"
    /\ f_text = <<>>
    /\ f_big = 0
    /\ f_bit_array = <<>>
    /\ f_header = <<>>
    /\ f_body_len = 0
    /\ f_dct_binary = <<>>
    /\ f_how = "none"
    /\ f_input = <<>>
    /\ f_decoded = NoResult

L_Idle ==
    /\ l_pc = "off"
    /\ l_calls = 0
    /\ l_dir = <<>>
    /\ l_temp_left = FALSE
    /\ l_cover = Unopenable
    /\ l_text = <<>>
    /\ l_hide_result = <<FALSE, "not called">>
    /\ l_out = NoVideo
    /\ l_extracted = <<>>
    /\ l_finished = NotFinished

D_Idle ==
    /\ d_pc = "off"
    /\ d_quantization = DefaultQuantization
    /\ d_cover = DCTUnopenable
    /\ d_text = <<>>
    /\ d_hide = NoHide
    /\ d_extracted = <<>>
    /\ d_block = 0
    /\ d_bit = 0
    /\ d_embedded = 0
    /\ d_got = 0

V_Idle ==
    /\ v_pc = "off"
    /\ v_cover = 0
    /\ v_secret = 0
    /\ v_f0 = 0
    /\ v_f1 = 0
    /\ v_decrypted = 0
    /\ v_enc = 0
    /\ v_dec = 0

Q_Idle ==
    /\ q_pc = "off"
    /\ q_cover = DCTUnopenable
    /\ q_method = "lsb"
    /\ q_capacity = NoCapacity
    /\ q_len = 0
    /\ q_hide = FALSE

X_Idle ==
    /\ x_pc = "off"
    /\ x_video = NoDCTVideo
    /\ x_carried = <<>>
    /\ x_fi = 0
    /\ x_k = 0
    /\ x_binary_data = <<>>
    /\ x_ret = <<>>

R_Idle ==
    /\ r_pc = "off"
    /\ r_src = Shape(1, 1)
    /\ r_sec = Shape(1, 1)
    /\ r_resized = NoShape
    /\ r_prepared = NoShape

S_Idle ==
    /\ s_pc = "off"
    /\ s_cover = <<>>
    /\ s_secret = <<>>
    /\ s_hide_ret = FALSE
    /\ s_stego = <<>>
    /\ s_ret = FALSE
    /\ s_out = <<>>

G_Idle ==
    /\ g_tab = NewTab
    /\ g_threads = <<>>
    /\ g_starts = 0
    /\ g_hide_ok = FALSE
    /\ g_emitted = <<FALSE, "off">>
    /\ g_shown = "nothing"

C_Idle ==
    /\ c_hide = "off"
    /\ c_extract = "off"
    /\ c_fs = NoDirs
    /\ c_wavs = NoWavs
    /\ c_secret = 0
    /\ c_stego_in = 0
    /\ c_fn = 0
    /\ c_writer = FALSE
    /\ c_written = 0
    /\ c_stego = NoOutput
    /\ c_out = NoOutput
    /\ c_hide_ret = FALSE
    /\ c_extract_ret = FALSE

W_Idle ==
    /\ w_pc = "off"
    /\ w_calls = 0
    /\ w_fs = NoDirs
    /\ w_before = NoDirs
    /\ w_cover = NoVIVVideo
    /\ w_secret = NoVIVVideo
    /\ w_stego = NoVIVVideo
    /\ w_stego_before = NoVIVVideo
    /\ w_extracted = NoVIVVideo
    /\ w_ret = FALSE

InitFramer == F_Init /\ L_Idle /\ D_Idle /\ V_Idle /\ Q_Idle /\ W_Idle /\ X_Idle /\ R_Idle /\ S_Idle /\ G_Idle /\ C_Idle

InitLSB == L_Init /\ F_Idle /\ D_Idle /\ V_Idle /\ Q_Idle /\ W_Idle /\ X_Idle /\ R_Idle /\ S_Idle /\ G_Idle /\ C_Idle

InitDCT == D_Init /\ F_Idle /\ L_Idle /\ V_Idle /\ Q_Idle /\ W_Idle /\ X_Idle /\ R_Idle /\ S_Idle /\ G_Idle /\ C_Idle

InitVIV == V_Init /\ F_Idle /\ L_Idle /\ D_Idle /\ Q_Idle /\ W_Idle /\ X_Idle /\ R_Idle /\ S_Idle /\ G_Idle /\ C_Idle

InitCapacity == Q_Init /\ F_Idle /\ L_Idle /\ D_Idle /\ V_Idle /\ W_Idle /\ X_Idle /\ R_Idle /\ S_Idle /\ G_Idle /\ C_Idle

InitVIVFiles == W_Init /\ F_Idle /\ L_Idle /\ D_Idle /\ V_Idle /\ Q_Idle /\ X_Idle /\ R_Idle /\ S_Idle /\ G_Idle /\ C_Idle

InitDCTWalk == X_Init /\ F_Idle /\ L_Idle /\ D_Idle /\ V_Idle /\ Q_Idle /\ W_Idle /\ R_Idle /\ S_Idle /\ G_Idle /\ C_Idle

InitVIVShape == R_Init /\ F_Idle /\ L_Idle /\ D_Idle /\ V_Idle /\ Q_Idle /\ W_Idle /\ X_Idle /\ S_Idle /\ G_Idle /\ C_Idle

InitVIVFrames == S_Init /\ F_Idle /\ L_Idle /\ D_Idle /\ V_Idle /\ Q_Idle /\ W_Idle /\ X_Idle /\ R_Idle /\ G_Idle /\ C_Idle

InitEncodeTab == G_Init /\ F_Idle /\ L_Idle /\ D_Idle /\ V_Idle /\ Q_Idle /\ W_Idle /\ X_Idle /\ R_Idle /\ S_Idle /\ C_Idle

InitVIVConcurrent == C_Init /\ F_Idle /\ L_Idle /\ D_Idle /\ V_Idle /\ Q_Idle /\ W_Idle /\ X_Idle /\ R_Idle /\ S_Idle /\ G_Idle

\* the bit framing alone
SpecFramer == InitFramer /\ [][F_Next]_vars

\* hide_data and extract_data of LSBSteganography
SpecLSB == InitLSB /\ [][L_Next]_vars

\* embed_bit, extract_bit, hide_data and extract_data of DCTSteganography
SpecDCT == InitDCT /\ [][D_Next]_vars

\* the channel and sample arithmetic of VideoInVideoSteganography
SpecVIV == InitVIV /\ [][V_Next]_vars

\* calculate_capacity and the capacity test of DCT hide_data
SpecCapacity == InitCapacity /\ [][Q_Next]_vars

\* hide_video and extract_video with their files and directories
SpecVIVFiles == InitVIVFiles /\ [][W_Next]_vars

\* the block walk of DCT extract_data, step by step
SpecDCTWalk == InitDCTWalk /\ [][X_Next]_vars

\* the resize and padding of a secret frame in hide_video
SpecVIVShape == InitVIVShape /\ [][R_Next]_vars

\* the frame loops of hide_video and extract_video
SpecVIVFrames == InitVIVFrames /\ [][S_Next]_vars

\* the events of the encode tab and its encode threads
SpecEncodeTab == InitEncodeTab /\ [][G_Next]_vars

\* a hide_video call and an extract_video call at the same time
SpecVIVConcurrent == InitVIVConcurrent /\ [][C_Next]_vars

(***************************************************************************)
(* Properties of the bit framing.                                          *)
(***************************************************************************)
\* n as 16 bits, most significant first
BigEndian16(n) == [i \in 1..HeaderBits |-> (n \div (2^(HeaderBits - i))) % 2]

\* largest bit count a 16-bit header can hold
MaxBodyBits == 2^HeaderBits - 1

\* the j-th character of the base64 text of a byte string, from its
\* definition: the j-th group of 6 bits (zero-filled) through the alphabet,
\* '=' for a group that holds no bit of the bytes
ExpectedB64Char(bytes, j) ==
    LET bits == BytesToBits(bytes)
        sextet == [k \in 1..6 |-> IF 6 * (j - 1) + k <= Len(bits)
                                  THEN bits[6 * (j - 1) + k] ELSE 0]
    IN  IF 6 * (j - 1) >= Len(bits) THEN B64Pad
        ELSE B64Char(BitsToNat(sextet))

C7_RoundTrip ==
    (f_pc = "decoded" /\ f_how = "append") => f_decoded = Ok(f_text)

\* a frame with bits after it has been decoded to its two-character text
C7_Witness ==
    /\ f_pc = "decoded"
    /\ f_how = "append"
    /\ Len(f_input) > Len(f_bit_array)
    /\ f_text = <<233, 65>>
    /\ f_decoded.ok

\* s is 8 binary digit characters per UTF-8 byte of text and nothing else
IsBinaryStringOf(s, text) ==
    /\ Len(s) = 8 * Len(Utf8Encode(text))
    /\ \A i \in 1..Len(s) : s[i] \in {DigitChar(0), DigitChar(1)}

\* C8: text_to_binary of LSBSteganography and of DCTSteganography returns
\* exactly 8 binary digits per UTF-8 byte of the text and nothing else
\* (40 for a 5-byte text), every element a 0/1 digit.
C8_EightDigitsPerByte ==
    /\ f_pc = "framed" => IsBinaryStringOf(f_bit_array, f_text)
    /\ f_pc = "dct_framed" => IsBinaryStringOf(f_dct_binary, f_text)

\* C9: binary_to_text of a bit sequence with fewer than 16 + n bits, n the
\* value of its first 16 bits, fails with an error; it never returns a
\* string built from the bits that are there.
C9_TruncatedFrameFails ==
    ( /\ f_pc = "decoded"
      /\ Len(f_input) < HeaderBits + BitsToNat(Slice(f_input, 0, HeaderBits)) )
    => ~f_decoded.ok

\* C10: text_to_binary fails for every text whose body exceeds 65535 bits;
\* it never returns a sequence whose length header is longer than 16 bits
\* or does not equal the body length.
C10_TooLargeFails ==
    f_pc \in {"framed", "framed_large"} =>
        /\ f_body_len <= MaxBodyBits
        /\ Len(f_header) = HeaderBits
        /\ BitsToNat(f_header) = f_body_len

(***************************************************************************)
(* Properties of LSBSteganography.hide_data and extract_data.              *)
(***************************************************************************)
\* the framed message fits the first frame of the cover
LSBFits(cover, text) ==
    /\ cover.opened
    /\ cover.frames # <<>>
    /\ Len(LSB_text_to_binary(text)) <= 3 * LSBWidth * LSBHeight

\* C1: for every text whose framed bit length is at most 3 x width x height
\* of the cover's first frame, hide_data(cover, out, s) followed by
\* extract_data(out) returns exactly s (the container storing every written
\* channel value unchanged).
C1_HideThenExtract ==
    ( /\ l_pc = "extracted"
      /\ LSBFits(l_cover, l_text)
      /\ l_hide_result[1] )
    => l_extracted = l_text

(***************************************************************************)
(* Properties of DCTSteganography.                                         *)
(***************************************************************************)
\* the framed message fits the whole 8x8 blocks of the cover's first frame
DCTFits(cover, text) ==
    /\ cover.opened
    /\ cover.frames # <<>>
    /\ Len(DCT_text_to_binary(PyStr(Len(text)) \o <<Colon>> \o text))
         <= (cover.width \div 8) * (cover.height \div 8)

\* C2: for every text whose framed bit length fits the 8x8 blocks of the
\* cover, hide_data(cover, out, message) returns True and extract_data(out)
\* then returns exactly that message (the container storing every written
\* channel value unchanged).
C2_HideThenExtract ==
    (d_pc = "extracted" /\ DCTFits(d_cover, d_text))
    => (d_hide.ret /\ d_extracted = d_text)

\* C4: for every block, whatever the sign or value of its coefficient at
\* (4,5), every bit and every quantization > 0,
\* extract_bit(embed_bit(block, bit)) = bit.
C4_EmbedThenExtractBit ==
    d_pc = "bit_extracted" => d_got = d_bit

(***************************************************************************)
(* Properties of the video-in-video arithmetic.                            *)
(***************************************************************************)
\* x with its low nibble zeroed, x & 0b11110000
HighNibble(x) == 16 * (x \div 16)

\* C3: for all 8-bit cover and secret values the two stego values of
\* hide_video, (cover & 0b11111100) | ((secret >> 4) & 0b11) and
\* (cover & 0b11111100) | (secret >> 6), are within 0..255, and the
\* extraction formula of extract_video yields exactly secret & 0b11110000.
C3_PixelRoundTrip ==
    /\ v_pc \in {"hidden", "half", "extracted"} =>
          /\ v_f0 \in Uint8 /\ v_f1 \in Uint8
          /\ v_f0 = 4 * (v_cover \div 4) + ((v_secret \div 16) % 4)
          /\ v_f1 = 4 * (v_cover \div 4) + (v_secret \div 64)
    /\ v_pc = "extracted" => v_decrypted = HighNibble(v_secret)

\* a secret value with bits in both extracted pairs and in its low nibble
\* has gone through hide_video and extract_video
C3_Witness ==
    /\ v_pc = "extracted"
    /\ v_secret = 219
    /\ v_cover = 255
    /\ v_decrypted = 208

\* C5: for all 8-bit cover and secret audio samples the sample written by
\* encode_audio, (cover & 0b11110000) | ((secret & 0b11110000) >> 4),
\* decodes under (combined & 0b00001111) << 4 to exactly
\* secret & 0b11110000, no value leaving 0..255.
C5_AudioRoundTrip ==
    /\ v_pc \in {"audio_encoded", "audio_decoded"} =>
          /\ v_enc \in Uint8
          /\ v_enc = HighNibble(v_cover) + (v_secret \div 16)
    /\ v_pc = "audio_decoded" =>
          /\ v_dec \in Uint8
          /\ v_dec = HighNibble(v_secret)

\* a secret sample with bits in both nibbles has been encoded over a cover
\* sample with bits in both nibbles, and decoded
C5_Witness ==
    /\ v_pc = "audio_decoded"
    /\ v_secret = 167
    /\ v_cover = 93
    /\ v_enc = 90
    /\ v_dec = 160

(***************************************************************************)
(* Capacity of LSBSteganography.hide_data.                                 *)
(***************************************************************************)
\* the framed message has more bits than the first frame has channels
LSBTooLong(cover, text) ==
    /\ cover.opened
    /\ cover.frames # <<>>
    /\ Len(LSB_text_to_binary(text)) > 3 * LSBWidth * LSBHeight

\* C11: hide_data reports failure whenever the framed bit sequence of the
\* message has more bits than 3 x width x height of the cover's first
\* frame; it never reports success for such a message.
C11_TooLongRejected ==
    ( /\ l_pc \in {"hidden", "extracted"}
      /\ LSBTooLong(l_cover, l_text) )
    => ~l_hide_result[1]

(***************************************************************************)
(* Properties of the capacity calculation.                                 *)
(***************************************************************************)
\* C13: calculate_capacity returns one frame's worth of capacity whatever
\* the cover's frame count: floor(width x height x 3 / 8) for method lsb,
\* floor((floor(width / 8) x floor(height / 8)) / 8) for method dct.
C13_OneFrameCapacity ==
    (q_pc \in {"known", "tried"} /\ q_cover.opened) =>
        /\ Lower(q_method) = "lsb" =>
              q_capacity = (q_cover.width * q_cover.height * 3) \div 8
        /\ Lower(q_method) = "dct" =>
              q_capacity
              = ((q_cover.width \div 8) * (q_cover.height \div 8)) \div 8

\* width and height are multiples of 8 and there is at least one frame
WholeBlocks(cover) ==
    /\ cover.opened
    /\ cover.width % 8 = 0
    /\ cover.height % 8 = 0
    /\ Len(cover.frames) >= 1

\* C12: for every cover whose width and height are multiples of 8 and whose
\* frame count is at least 1, with c = calculate_capacity(cover, 'dct'),
\* DCT hide_data succeeds for a message of exactly c bytes and fails for a
\* message of exactly c + 1 bytes.
C12_CapacityIsTheLimit ==
    (q_pc = "tried" /\ WholeBlocks(q_cover)) =>
        /\ q_len = q_capacity => q_hide
        /\ q_len = q_capacity + 1 => ~q_hide

(***************************************************************************)
(* Properties of hide_video and extract_video.                             *)
(***************************************************************************)
\* hide_video returned False and left the file at the output path and the
\* working directories as they were
RejectedUntouched ==
    /\ ~w_ret
    /\ w_stego = w_stego_before
    /\ w_fs = w_before

C15_OddStegoRejected ==
    ( /\ w_pc = "extracted"
      /\ w_cover.opened
      /\ w_cover.frames % 2 = 1 )
    => ~w_ret

(***************************************************************************)
(* Properties of decoding, of failures and of the files left behind.       *)
(***************************************************************************)
\* the low bits of the first frame of a readable video hold no complete
\* valid frame: fewer bits than the header announces, or bits that do not
\* decode
NoValidFrame(video) ==
    /\ video.exists
    /\ video.frames # <<>>
    /\ LET bit_array == [i \in 1..Len(video.frames[1]) |->
                            LowBit(video.frames[1][i])]
       IN  \/ Len(bit_array)
                < HeaderBits + BitsToNat(Slice(bit_array, 0, HeaderBits))
           \/ ~LSB_binary_to_text(bit_array).ok

\* C16: decoding a readable video that holds no complete valid hidden frame
\* ends in an error outcome distinct from a recovered text: the decode
\* thread never delivers it as a successfully extracted message.
C16_NoHiddenDataIsAnError ==
    (l_pc = "finished" /\ NoValidFrame(l_out)) => ~l_finished[1]

\* the blocks hide_data counts as room for bits
DCT_max_bits(cover) ==
    (cover.width \div 8) * (cover.height \div 8) * Len(cover.frames)

\* hide_data was given a cover it cannot open or a message that does not fit
DCTMustFail ==
    \/ ~d_cover.opened
    \/ d_hide.data_len > DCT_max_bits(d_cover)

\* C17: every failing embed or extract operation (unopenable cover,
\* capacity exceeded, ...) returns a specific error kind together with a
\* detail string; none returns only a bare boolean False.
C17_FailuresCarryDetail ==
    (d_pc = "hidden" /\ DCTMustFail) => d_hide.ret \notin BOOLEAN

\* C18: when an embed operation is rejected because the payload does not
\* fit the cover, the rejection happens before any mutation: no output file
\* has been created, truncated or modified by that call.
C18_RejectedBeforeMutation ==
    ( /\ d_pc = "hidden"
      /\ d_cover.opened
      /\ d_hide.data_len > DCT_max_bits(d_cover) )
    => (~d_hide.ret /\ ~d_hide.out.exists)

\* C19: after any embed or extract operation ends, whether it succeeded,
\* returned a failure or raised inside, every intermediate frame file and
\* temporary directory it created (assets/frames, temp_png_frames, ...) has
\* been removed.
C19_TemporariesRemoved ==
    l_pc \in {"hidden", "extracted", "finished"} =>
        (l_dir = <<>> /\ ~l_temp_left)

\* frame a is frame b, but for the lowest bit of its channel values
ProducedFrom(a, b) ==
    /\ Len(a) = Len(b)
    /\ \A i \in 1..Len(a) : a[i] \div 2 = b[i] \div 2

\* C20: for a cover of N frames, N >= 1 (N > 10 too), after any earlier
\* hide_data calls on other covers, the output of hide_data has exactly N
\* frames and output frame i is produced from cover frame i for every i.
C20_OutputFollowsCover ==
    (l_pc = "hidden" /\ l_hide_result[1]) =>
        /\ Len(l_out.frames) = Len(l_cover.frames)
        /\ \A i \in 1..Len(l_cover.frames) :
              ProducedFrom(l_out.frames[i], l_cover.frames[i])

\* C26: whenever DCT hide_data returns True, every bit of the framed payload
\* has been embedded: data_index equals data_len at the end of the frame loop
C26_TrueMeansAllEmbedded ==
    (d_pc = "hidden" /\ d_hide.ret) => d_hide.data_index = d_hide.data_len

\* C27: DCT hide_data changes only blocks of the first frame, and of them
\* only the first data_len in raster order; every later frame and every
\* other block of the first frame is in the output as it was in the cover
C27_OnlyFirstFramePrefix ==
    (d_pc = "hidden" /\ d_hide.ret) =>
        /\ Len(d_hide.out.frames) = Len(d_cover.frames)
        /\ \A fi \in 2..Len(d_cover.frames) :
               d_hide.out.frames[fi] = d_cover.frames[fi]
        /\ \A i \in 1..Len(d_cover.frames[1]) :
               i > d_hide.data_len =>
                   d_hide.out.frames[1][i] = d_cover.frames[1][i]

\* C22: DCT extract_data returns a message only when the bits read so far
\* hold the whole length header and every declared message character; it
\* never returns a shorter string while payload bits are still unread
C22_ReturnsOnlyWholeFrame ==
    x_pc = "returned" => Len(x_binary_data) >= Len(x_carried)

\* C30: for all positive cover and secret dimensions the resized secret
\* frame is never wider or taller than the cover, so neither padding size is
\* negative, and the padded frame has exactly the cover's width and height
C30_PreparedFrameMatchesCover ==
    (r_pc = "prepared" /\ r_resized.ok) =>
        /\ r_resized.val.w <= r_src.w
        /\ r_resized.val.h <= r_src.h
        /\ r_prepared = Ok(r_src)

\* a secret frame that went through both resizes and was then padded
C30_Witness ==
    /\ r_pc = "prepared"
    /\ r_prepared.ok
    /\ r_sec.w > r_sec.h
    /\ r_src.w * r_sec.h # r_sec.w * r_src.h
    /\ r_resized.val.h = r_src.h
    /\ r_resized.val.w < r_src.w
    /\ r_resized.val # r_sec

\* C28: for a secret video of S frames and a cover of at least S frames
\* hide_video writes exactly 2 x S stego frames in order, two for each secret
\* frame, and extract_video of that stream outputs exactly S frames in order,
\* output frame k being secret frame k with the low nibble zeroed
C28_FramesInOrder ==
    ( /\ s_pc = "extracted"
      /\ s_hide_ret /\ s_ret
      /\ s_out # <<>> )
    => /\ Len(s_stego) = 2 * Len(s_secret)
       /\ \A k \in 1..Len(s_secret) :
              /\ s_stego[2 * k - 1] = VIV_encrypt_first(s_cover[k], s_secret[k])
              /\ s_stego[2 * k] = VIV_encrypt_second(s_cover[k], s_secret[k])
       /\ Len(s_out) = Len(s_secret)
       /\ \A k \in 1..Len(s_secret) : s_out[k] = HighNibble(s_secret[k])

\* C23: in every state the events of the encode tab reach, a video-in-video
\* encode has been started only with a secret video of at most
\* floor(cover frame count / 2) frames
C23_StartedWithinHalf ==
    \A i \in 1..Len(g_threads) :
        g_threads[i].method = "VIV" =>
            InfoFrameCount(g_threads[i].secret_path)
                <= InfoFrameCount(g_threads[i].video_path) \div 2

\* C24: EncodeThread.run emits finished(True, output_path) only when the
\* hide operation succeeded; when hide_data or hide_video reports a failure
\* it emits finished(False, ...) and the front end shows the failure
C24_FinishedTellsTheOutcome ==
    g_shown # "nothing" =>
        /\ g_emitted[1] => g_hide_ok
        /\ ~g_hide_ok => (~g_emitted[1] /\ g_shown = "Encoding Failed")

\* C25: between start_encoding and the matching encoding_finished the Encode
\* button stays disabled under every user event, so at most one EncodeThread
\* runs at any time
C25_OneEncodeAtATime ==
    /\ g_threads # <<>> => ~g_tab.enabled
    /\ Len(g_threads) <= 1

\* the front end admits the message in the tab for LSB: check_encode_button
\* finds it non-empty and not longer than the computed capacity
AdmittedForLSB(tab) ==
    /\ tab.input.set
    /\ tab.method = "LSB"
    /\ tab.message > 0
    /\ tab.message <= calculate_capacity(AsCapacityCover(tab.input), tab.method)

\* C29: every message the front end admits (byte length <= calculate_capacity
\* of the cover) has a framed bit sequence, as text_to_binary produces it,
\* that fits in the bits the codec has in that cover: the low bits of the
\* first frame
C29_AdmittedMessageFits ==
    AdmittedForLSB(g_tab) =>
        Len(LSB_text_to_binary(MessageOfBytes(g_tab.message)))
            <= Len(AsLSBCover(g_tab.input).frames[1])


(***************************************************************************)
(* Properties of two video-in-video calls at the same time.                *)
(***************************************************************************)
\* the file a call run alone leaves at its output path, its sound named
\* after the call
AsOutput(video, call) == [opened |-> video.opened, frames |-> video.frames, audio |-> IF video.audio THEN call ELSE "none"]

\* hide_video run alone on the cover and the secret of this run
HideAlone == VIV_hide_video(VIV_init(NoDirs), SoundVideo(c_secret), SoundVideo(c_secret), NoVIVVideo, TRUE)

\* extract_video run alone on the stego file of this run
ExtractAlone == VIV_extract_video(VIV_init(NoDirs), SoundVideo(c_stego_in), NoVIVVideo, TRUE)

\* C21: a hide_video call and an extract_video call that run at the same
\* time on different cover and output paths each return what they return
\* alone and each leave at their output path the file they leave alone,
\* whatever the interleaving of their steps.
C21_EachAsAlone ==
    /\ c_hide = "ended" =>
           /\ c_hide_ret = HideAlone.ret
           /\ c_stego = AsOutput(HideAlone.output, "hide")
    /\ c_extract = "ended" =>
           /\ c_extract_ret = ExtractAlone.ret
           /\ c_out = AsOutput(ExtractAlone.output, "extract")

=============================================================================
